---- MODULE Spec2Model ----
(***************************************************************************)
(* Sentry content-safety backend (backend/app/main.py).                    *)
(*                                                                         *)
(* The analysis handlers (analyze-content, analyze-batch, analyze-image,   *)
(* analyze-image-nsfw) are functions of one request and of what the remote *)
(* classifier / image download / local model answer.  SpecAnalyze draws    *)
(* the request in Init and the handler's action produces the response.     *)
(*                                                                         *)
(* The event stores (flagged events, activity logs) are process state      *)
(* that grows with requests: SpecFlagged and SpecActivity.                 *)
(***************************************************************************)
EXTENDS Integers, Sequences, FiniteSets, TLC

VARIABLES
    req,                   \* the request being handled (SpecAnalyze)
    resp,                  \* the HTTP response of the last handled request
    NSFW_MODEL,            \* main.py:22  the lazily loaded local model
    USE_FIREBASE,          \* main.py:160/186/191  backend selected at start
    flagged_events_cache,  \* main.py:237
    flagged_events_file,   \* content of flagged_events.json (main.py:194)
    firestore_flagged,     \* documents of the remote 'flagged_events' collection
    flagged_accepted,      \* history: cache at start, then every local append
    activity_logs_cache,   \* main.py:1100  family id -> list of logs
    firestore_activity,    \* documents of families/{id}/activity_logs
    activity_accepted,     \* history: per family, every log appended
    firestore_members,     \* documents of families/{id}/members
    blur_reveal_cache,     \* main.py:1293
    firestore_reveals,     \* documents of the remote 'blur_reveals' collection
    reveal_accepted,       \* history: every reveal appended locally
    load_attempts,         \* history: times load_nsfw_model tried to load
    pc,                    \* position of each concurrent caller (SpecLocked)
    _flagged_events_lock,  \* main.py:195  the caller holding the lock
    lock_order,            \* history: callers in the order they took the lock
    handled                \* number of store requests handled in this run

vars == <<req, resp, NSFW_MODEL, USE_FIREBASE, flagged_events_cache,
          flagged_events_file, firestore_flagged, flagged_accepted,
          activity_logs_cache, firestore_activity, activity_accepted,
          firestore_members, blur_reveal_cache, firestore_reveals, reveal_accepted, load_attempts,
          pc, _flagged_events_lock, lock_order, handled>>

analysisVars == <<req, resp, NSFW_MODEL>>
flaggedVars == <<USE_FIREBASE, flagged_events_cache, flagged_events_file,
                 firestore_flagged, flagged_accepted>>
activityVars == <<activity_logs_cache, firestore_activity, activity_accepted,
                  firestore_members>>
revealVars == <<blur_reveal_cache, firestore_reveals, reveal_accepted>>
lockVars == <<pc, _flagged_events_lock, lock_order>>

(***************************************************************************)
(* Bounds of the model.                                                    *)
(***************************************************************************)
MaxRemoteLen == 2     \* longest remote array enumerated entry by entry
MaxSmallBatch == 3    \* batch sizes 0..MaxSmallBatch, plus those around 50
MaxFlaggedWrites == 261   \* local appends of flagged events per run
MaxFirestoreDocs == 2     \* the remote store accepts writes only among the
                          \* first MaxFirestoreDocs requests of a run
MaxSyncs == 3
MaxRevealWrites == 1002   \* local appends of reveal events per run
MaxSmallSyncs == 3        \* requests per run of SpecSync
MaxLogId == 2             \* log ids 1..MaxLogId in SpecSync
MaxGatewayCalls == 3      \* requests per run of SpecGateway
MaxCallers == 3           \* concurrent callers of one handler
MaxNsfwCalls == 3         \* calls of POST /analyze-image-nsfw per run of SpecNsfw
MaxStoreCalls == 4        \* requests per run of SpecStores
MaxRegistrations == 3     \* calls of POST /register-member per run of SpecMembers
MaxChunks == 2            \* pieces a classifier response text is put together from
MaxKeywordCalls == 2      \* calls of POST /analyze per run of SpecKeyword

(***************************************************************************)
(* Program constants.                                                      *)
(***************************************************************************)
MAX_BATCH_CONTENTS == 50
MAX_FLAGGED_EVENTS == 250
MAX_ACTIVITY_LOGS_PER_FAMILY == 500
MAX_BLUR_REVEALS == 1000

(***************************************************************************)
(* Verdicts.  A JSON value other than an array is an "entry": an object    *)
(* with the set `has` of verdict fields it carries, or a bare number.      *)
(* reason and what_to_do are fixed texts that go with the title; the       *)
(* first words of the reason are kept to tell the literals apart.  class    *)
(* and probabilities are set by analyze-image-nsfw alone.                  *)
(***************************************************************************)
VerdictFields == {"safe", "title", "reason", "what_to_do", "category", "confidence"}

Verdict(safe, title, reason, category, confidence) ==
    [kind |-> "object", has |-> VerdictFields, safe |-> safe, title |-> title,
     reason |-> reason, category |-> category, confidence |-> confidence,
     class |-> "", probabilities |-> <<>>]

\* The categories the prompts ask for, and the system categories of the
\* fallback verdicts.
TaxonomyCategories ==
    {"profanity", "explicit_content", "scam", "disturbing", "safe",
     "violence", "hate_speech", "self_harm", "alcohol_drugs"}

SystemCategories == {"flagged_by_system", "system_blocked", "processing_error", "error"}

RecognisedCategories == TaxonomyCategories \cup SystemCategories

\* analyze_content
CONTENT_BLOCKED == Verdict(FALSE, "Content Flagged", "This content couldn't be properly analyzed", "flagged_by_system", 80)
CONTENT_API_BLOCKED == Verdict(FALSE, "Content Flagged", "Our safety systems have identified", "system_blocked", 95)
CONTENT_PARSE_ERROR == Verdict(FALSE, "Analysis Error", "We couldn't properly analyze this content", "processing_error", 70)
CONTENT_ERROR == Verdict(FALSE, "Safety Check Error", "We encountered an issue", "error", 60)
\* analyze_batch
BATCH_PAD == Verdict(TRUE, "Content is Safe", "No inappropriate content detected.", "safe", 70)
BATCH_BLOCKED == Verdict(FALSE, "Content Flagged", "Content flagged by safety systems.", "flagged_by_system", 80)
BATCH_PARSE_ERROR == Verdict(TRUE, "Analysis Error", "Couldn't analyze this content properly.", "error", 50)
BATCH_API_ERROR == Verdict(FALSE, "Safety Check Error", "Flagged as precaution due to processing error.", "error", 60)
\* analyze_image
IMAGE_NO_RESPONSE == Verdict(TRUE, "Content Appears Safe", "We couldn't fully analyze this image", "safe", 50)
IMAGE_HTTP_ERROR == Verdict(TRUE, "Image Not Accessible", "We couldn't download this image", "error", 20)
IMAGE_PARSE_ERROR == Verdict(FALSE, "Image Analysis Uncertain", "We had trouble analyzing this image.", "processing_error", 60)
IMAGE_ERROR == Verdict(TRUE, "Analysis Error", "We couldn't analyze this image properly.", "error", 40)
\* analyze_image_nsfw
NSFW_MODEL_UNAVAILABLE == Verdict(TRUE, "Model Not Available", "NSFW detection model is not loaded.", "error", 0)
NSFW_HTTP_ERROR == Verdict(TRUE, "Image Not Accessible", "Could not download the image for analysis.", "error", 0)
NSFW_ERROR == Verdict(TRUE, "Analysis Error", "Error analyzing image", "error", 0)

(***************************************************************************)
(* What the remote classifier can answer.                                  *)
(***************************************************************************)
\* Values the classifier puts in its JSON: two complete verdicts, an object
\* that omits fields, one with confidence out of range, one with an unknown
\* category, and a bare number.
RemoteUnsafe == Verdict(FALSE, "R-unsafe", "r", "profanity", 90)
RemoteSafe == Verdict(TRUE, "R-safe", "r", "safe", 85)
RemotePartial == [RemoteSafe EXCEPT !.has = {"safe"}, !.title = "R-partial"]
RemoteOutOfRange == [RemoteUnsafe EXCEPT !.confidence = 150, !.title = "R-range"]
RemoteUnknownCategory == [RemoteUnsafe EXCEPT !.category = "weird", !.title = "R-cat"]
RemoteNumber ==
    [kind |-> "number", has |-> {}, safe |-> FALSE, title |-> "", reason |-> "",
     category |-> "", confidence |-> 42, class |-> "", probabilities |-> <<>>]

RemoteEntries ==
    {RemoteUnsafe, RemoteSafe, RemotePartial, RemoteOutOfRange,
     RemoteUnknownCategory, RemoteNumber}

\* A parsed JSON document: an array of entries, or one entry (isList FALSE,
\* the entry being items[1]).
Doc(isList, items) == [isList |-> isList, items |-> items]
NullDoc == Doc(TRUE, <<>>)

SeqsUpTo(S, n) == UNION {[1..k -> S] : k \in 0..n}

RemoteDocs ==
    {Doc(TRUE, s) : s \in SeqsUpTo(RemoteEntries, MaxRemoteLen)}
    \cup {Doc(FALSE, <<e>>) : e \in RemoteEntries}
    \cup {Doc(TRUE, [i \in 1..n |-> IF i % 2 = 1 THEN RemoteUnsafe ELSE RemoteSafe])
            : n \in (MAX_BATCH_CONTENTS - 1)..(MAX_BATCH_CONTENTS + 1)}

\* The response text as a sequence of tokens: a markdown fence ("fence_json"
\* is the fence followed by the word json, "fence" the three backquotes
\* alone), white space, the text of one JSON document, or anything else.
Tok(t) == [t |-> t, doc |-> NullDoc]
DocTok(d) == [t |-> "doc", doc |-> d]

RemoteTexts ==
    UNION {{<<DocTok(d)>>,
            <<Tok("fence_json"), Tok("ws"), DocTok(d), Tok("ws"), Tok("fence")>>,
            <<Tok("ws"), Tok("fence"), DocTok(d), Tok("fence"), Tok("ws")>>}
             : d \in RemoteDocs}
    \cup {<<>>, <<Tok("ws")>>, <<Tok("junk")>>, <<Tok("fence_json"), Tok("fence")>>,
          <<DocTok(Doc(FALSE, <<RemoteSafe>>)), Tok("junk")>>,
          <<Tok("junk"), Tok("ws"), DocTok(Doc(TRUE, <<RemoteSafe>>))>>}

\* generate_content returns a response with that text, or raises (also when
\* reading response.text raises) with a message.
ErrorMessages == {"Response was BLOCKED by safety", "PROHIBITED_CONTENT", "Deadline exceeded"}

RemoteOutcomes ==
    {[kind |-> "text", text |-> t, msg |-> ""] : t \in RemoteTexts}
    \cup {[kind |-> "raise", text |-> <<>>, msg |-> m] : m \in ErrorMessages}

NoRemote == [kind |-> "none", text |-> <<>>, msg |-> ""]

(***************************************************************************)
(* Response normalisation: strip, drop the fences, strip, json.loads.      *)
(***************************************************************************)
RECURSIVE lstrip(_)
lstrip(s) == IF s # <<>> /\ Head(s).t = "ws" THEN lstrip(Tail(s)) ELSE s

RECURSIVE rstrip(_)
rstrip(s) ==
    IF s # <<>> /\ s[Len(s)].t = "ws" THEN rstrip(SubSeq(s, 1, Len(s) - 1)) ELSE s

strip(s) == rstrip(lstrip(s))

replace_with_empty(s, old) == SelectSeq(s, LAMBDA tok : tok.t # old)

clean_response_text(text) ==
    strip(replace_with_empty(replace_with_empty(strip(text), "fence_json"), "fence"))

\* json.loads: a value when the text is exactly one JSON document, else
\* JSONDecodeError.
json_loads(s) ==
    IF Len(s) = 1 /\ s[1].t = "doc"
    THEN [ok |-> TRUE, doc |-> s[1].doc]
    ELSE [ok |-> FALSE, doc |-> NullDoc]

\* "blocked" in str(e).lower() or "prohibited" in str(e).lower()
is_blocked_message(msg) ==
    msg \in {"Response was BLOCKED by safety", "PROHIBITED_CONTENT"}

(***************************************************************************)
(* HTTP responses.  body is the JSON returned: for analyze-batch the value *)
(* of "results", otherwise the verdict (or whatever was returned in its    *)
(* place).  invoked: the remote classifier was called for this request.    *)
(***************************************************************************)
NoResp == [status |-> 0, body |-> NullDoc, invoked |-> FALSE]
Ok(body, invoked) == [status |-> 200, body |-> body, invoked |-> invoked]
HTTPException(code, invoked) == [status |-> code, body |-> NullDoc, invoked |-> invoked]
One(entry) == Doc(FALSE, << entry >>)
Filled(n, entry) == Doc(TRUE, [i \in 1..n |-> entry])

(***************************************************************************)
(* POST /analyze-content                                                   *)
(***************************************************************************)
\* Python truthiness of data.get("content")
content_given(content) == content \in {"text", "number"}

\* content_inner with the empty/blocked branch answering a safe default, as
\* analyze_image's does
content_inner_safe_default(remote) ==
    IF remote.kind = "raise"
    THEN IF is_blocked_message(remote.msg)
         THEN [raised |-> "", body |-> One(CONTENT_API_BLOCKED)]
         ELSE [raised |-> "Exception", body |-> NullDoc]
    ELSE IF remote.text # <<>>
    THEN LET parsed == json_loads(clean_response_text(remote.text))
         IN IF parsed.ok
            THEN [raised |-> "", body |-> parsed.doc]
            ELSE [raised |-> "JSONDecodeError", body |-> NullDoc]
    ELSE [raised |-> "", body |-> One(IMAGE_NO_RESPONSE)]

\* The inner try of analyze_content (main.py:391-427): a verdict, or the
\* exception that leaves it.
content_inner(remote) ==
    IF remote.kind = "raise"
    THEN IF is_blocked_message(remote.msg)
         THEN [raised |-> "", body |-> One(CONTENT_API_BLOCKED)]
         ELSE [raised |-> "Exception", body |-> NullDoc]
    ELSE IF remote.text # <<>>
    THEN LET parsed == json_loads(clean_response_text(remote.text))
         IN IF parsed.ok
            THEN [raised |-> "", body |-> parsed.doc]
            \* JSONDecodeError passes through "except Exception as api_error":
            \* its message names neither "blocked" nor "prohibited"
            ELSE [raised |-> "JSONDecodeError", body |-> NullDoc]
    ELSE [raised |-> "", body |-> One(CONTENT_BLOCKED)]

\* analyze_content without the outer "except Exception": the error of the
\* classifier call leaves the handler
analyze_content_propagates(r) ==
    IF ~content_given(r.content)
    THEN HTTPException(400, FALSE)
    ELSE IF r.content # "text"
    THEN HTTPException(500, FALSE)
    ELSE LET inner == content_inner(r.remote)
         IN CASE inner.raised = "JSONDecodeError" -> Ok(One(CONTENT_PARSE_ERROR), TRUE)
              [] inner.raised = "Exception" -> HTTPException(500, TRUE)
              [] OTHER -> Ok(inner.body, TRUE)

analyze_content(r) ==
    IF ~content_given(r.content)
    THEN HTTPException(400, FALSE)
    ELSE IF r.content # "text"
    \* str.replace(old, <not a str>) raises TypeError before the call
    THEN Ok(One(CONTENT_ERROR), FALSE)
    ELSE LET inner == content_inner(r.remote)
         IN CASE inner.raised = "JSONDecodeError" -> Ok(One(CONTENT_PARSE_ERROR), TRUE)
              [] inner.raised = "Exception" -> Ok(One(CONTENT_ERROR), TRUE)
              [] OTHER -> Ok(inner.body, TRUE)

(***************************************************************************)
(* POST /analyze-batch                                                     *)
(***************************************************************************)
\* padding at the head instead of the tail
RECURSIVE pad_results_front(_, _)
pad_results_front(results, n) ==
    IF Len(results) < n THEN pad_results_front(<<BATCH_PAD>> \o results, n) ELSE results

\* "while len(results) < len(contents): results.append(<safe default>)"
RECURSIVE pad_results(_, _)
pad_results(results, n) ==
    IF Len(results) < n THEN pad_results(Append(results, BATCH_PAD), n) ELSE results

\* no truncation
truncate_none(results, n) == results

\* results[:n]
truncate(results, n) == SubSeq(results, 1, IF Len(results) < n THEN Len(results) ELSE n)

\* batch_results without the "response.text is non-empty" test: an empty
\* response goes to json.loads
batch_results_no_empty_test(remote, n) ==
    IF remote.kind = "raise"
    THEN Filled(n, BATCH_API_ERROR)
    ELSE LET parsed == json_loads(clean_response_text(remote.text))
         IN IF parsed.ok
            THEN Doc(TRUE, truncate(pad_results(parsed.doc.items, n), n))
            ELSE Filled(n, BATCH_PARSE_ERROR)

\* main.py:500-564: the remote call and the reconciliation to n results
batch_results(remote, n) ==
    IF remote.kind = "raise"
    THEN Filled(n, BATCH_API_ERROR)
    ELSE IF remote.text # <<>>
    THEN LET parsed == json_loads(clean_response_text(remote.text))
         IN IF parsed.ok
            THEN Doc(TRUE, truncate(pad_results(parsed.doc.items, n), n))
            ELSE Filled(n, BATCH_PARSE_ERROR)
    ELSE Filled(n, BATCH_BLOCKED)

\* contents: [isList, items]; an item is "str", or "num" for a JSON value
\* that cannot be sliced (content[:1000] raises TypeError).
\* a handler without the test of the batch size
analyze_batch_unlimited(r) ==
    LET contents == r.contents
        n == Len(contents.items)
    IN IF n = 0 \/ ~contents.isList
       THEN HTTPException(400, FALSE)
       ELSE IF \E i \in 1..n : contents.items[i] # "str"
       THEN HTTPException(500, FALSE)
       ELSE Ok(batch_results(r.remote, n), TRUE)

analyze_batch(r) ==
    LET contents == r.contents
        n == Len(contents.items)
    IN IF n = 0 \/ ~contents.isList
       THEN HTTPException(400, FALSE)
       ELSE IF n = 0
       THEN Ok(Doc(TRUE, <<>>), FALSE)
       ELSE IF n > MAX_BATCH_CONTENTS
       THEN HTTPException(400, FALSE)
       ELSE IF \E i \in 1..n : contents.items[i] # "str"
       THEN HTTPException(500, FALSE)
       ELSE Ok(batch_results(r.remote, n), TRUE)

(***************************************************************************)
(* POST /analyze-image                                                     *)
(***************************************************************************)
analyze_image(r) ==
    IF r.image_url # "url"
    THEN HTTPException(400, FALSE)
    ELSE IF r.download = "http_error"
    THEN Ok(One(IMAGE_HTTP_ERROR), FALSE)
    ELSE IF r.download # "ok"
    THEN Ok(One(IMAGE_ERROR), FALSE)
    ELSE IF r.remote.kind = "raise"
    THEN Ok(One(IMAGE_ERROR), TRUE)
    ELSE IF r.remote.text # <<>>
    THEN LET parsed == json_loads(clean_response_text(r.remote.text))
         IN IF parsed.ok
            THEN Ok(parsed.doc, TRUE)
            ELSE Ok(One(IMAGE_PARSE_ERROR), TRUE)
    ELSE Ok(One(IMAGE_NO_RESPONSE), TRUE)

(***************************************************************************)
(* The local image classifier and POST /analyze-image-nsfw                 *)
(***************************************************************************)
\* load_nsfw_model: loads only while NSFW_MODEL is None; an absent
\* artefact or a failed load leaves it None.
load_nsfw_model(model, artifact) ==
    IF model = "None"
    THEN IF artifact = "present" THEN "loaded" ELSE "None"
    ELSE model

\* "if NSFW_MODEL is None:" -- the body that looks for the artefact and
\* loads it runs whenever no model is held
load_attempted(model) == model = "None"

\* class index -> label, from the bundle's class_indices
idx_to_class == <<"nsfw", "safe", "sexy">>

\* np.argmax: the first index holding the maximum
argmax(p) ==
    CHOOSE i \in 1..Len(p) :
        /\ \A j \in 1..Len(p) : p[j] <= p[i]
        /\ \A j \in 1..(i - 1) : p[j] < p[i]

\* round(confidence * 100), the probability being given in thousandths:
\* Python rounds a half to the even neighbour.
round_percent(pm) ==
    LET q == pm \div 10
        rest == pm % 10
    IN IF rest > 5 \/ (rest = 5 /\ q % 2 = 1) THEN q + 1 ELSE q

\* a prediction made whether or not a model is held
predict_nsfw_unguarded(model, probabilities) ==
    LET predicted_idx == argmax(probabilities)
    IN [none |-> FALSE, class |-> idx_to_class[predicted_idx],
        confidence |-> probabilities[predicted_idx],
        is_safe |-> idx_to_class[predicted_idx] = "safe",
        probabilities |-> probabilities]

\* predict_nsfw on a decoded image: None without a model
predict_nsfw(model, probabilities) ==
    IF model = "None"
    THEN [none |-> TRUE, class |-> "", confidence |-> 0, is_safe |-> FALSE,
          probabilities |-> <<>>]
    ELSE LET predicted_idx == argmax(probabilities)
         IN [none |-> FALSE, class |-> idx_to_class[predicted_idx],
             confidence |-> probabilities[predicted_idx],
             is_safe |-> idx_to_class[predicted_idx] = "safe",
             probabilities |-> probabilities]

\* a verdict that flags only the class "nsfw"
nsfw_verdict_flags_only_nsfw(result) ==
    IF result.none
    THEN NSFW_MODEL_UNAVAILABLE
    ELSE [kind |-> "object",
          has |-> VerdictFields \cup {"class", "probabilities"},
          safe |-> result.class # "nsfw",
          title |-> IF result.class # "nsfw" THEN "Image Appears Safe"
                    ELSE "Inappropriate Image Detected",
          reason |-> IF result.class # "nsfw" THEN "This image was classified as safe"
                     ELSE "This image has been flagged",
          category |-> IF result.class # "nsfw" THEN "safe" ELSE "explicit_content",
          confidence |-> round_percent(result.confidence),
          class |-> result.class,
          probabilities |-> result.probabilities]

nsfw_verdict(result) ==
    IF result.none
    THEN NSFW_MODEL_UNAVAILABLE
    ELSE [kind |-> "object",
          has |-> VerdictFields \cup {"class", "probabilities"},
          safe |-> result.is_safe,
          title |-> IF result.is_safe THEN "Image Appears Safe"
                    ELSE "Inappropriate Image Detected",
          reason |-> IF result.is_safe THEN "This image was classified as safe"
                     ELSE "This image has been flagged",
          category |-> IF result.is_safe THEN "safe" ELSE "explicit_content",
          confidence |-> round_percent(result.confidence),
          class |-> result.class,
          probabilities |-> result.probabilities]

\* image_url: "none", "blank" (white space or the placeholder "string") or
\* "url"; image_base64: "none", "blank", "data_uri", "raw_long" (more than
\* 100 characters) or "raw_short".  download: how loading the image ends.
nsfw_url_given(r) == r.image_url = "url"
nsfw_base64_given(r) == r.image_base64 \in {"data_uri", "raw_long", "raw_short"}

\* whether the handler gets as far as predict_nsfw
nsfw_predicts(r) ==
    /\ nsfw_url_given(r) \/ r.image_base64 \in {"data_uri", "raw_long"}
    /\ r.download = "ok"

analyze_image_nsfw(r, model) ==
    IF ~nsfw_url_given(r) /\ ~nsfw_base64_given(r)
    THEN HTTPException(400, FALSE)
    ELSE IF ~nsfw_url_given(r) /\ r.image_base64 = "raw_short"
    \* the HTTPException(400) raised inside the try is caught by
    \* "except Exception"
    THEN Ok(One(NSFW_ERROR), FALSE)
    ELSE IF r.download = "http_error"
    THEN Ok(One(NSFW_HTTP_ERROR), FALSE)
    ELSE IF r.download # "ok"
    THEN Ok(One(NSFW_ERROR), FALSE)
    ELSE Ok(One(nsfw_verdict(predict_nsfw(load_nsfw_model(model, r.artifact),
                                          r.prediction))), FALSE)

(***************************************************************************)
(* Requests of the analysis endpoints.                                     *)
(***************************************************************************)
BlankReq ==
    [endpoint |-> "", content |-> "missing",
     contents |-> [isList |-> TRUE, items |-> <<>>],
     image_url |-> "none", image_base64 |-> "none", download |-> "ok",
     remote |-> NoRemote, artifact |-> "absent", prediction |-> <<>>]

ContentRequests ==
    {[BlankReq EXCEPT !.endpoint = "analyze-content", !.content = c]
        : c \in {"missing", "empty", "number"}}
    \cup {[BlankReq EXCEPT !.endpoint = "analyze-content", !.content = "text",
                           !.remote = o] : o \in RemoteOutcomes}

BatchSizes ==
    (1..MaxSmallBatch) \cup {MAX_BATCH_CONTENTS - 1, MAX_BATCH_CONTENTS}

StrContents(n) == [isList |-> TRUE, items |-> [i \in 1..n |-> "str"]]

BatchRequests ==
    {[BlankReq EXCEPT !.endpoint = "analyze-batch", !.contents = c]
        : c \in {StrContents(0), StrContents(MAX_BATCH_CONTENTS + 1),
                 [isList |-> FALSE, items |-> <<>>],
                 [isList |-> FALSE, items |-> <<"str">>]}
              \cup UNION {{[StrContents(n) EXCEPT !.items[p] = "num"] : p \in 1..n}
                            : n \in 1..MaxSmallBatch}}
    \cup {[BlankReq EXCEPT !.endpoint = "analyze-batch",
                           !.contents = StrContents(n), !.remote = o]
            : n \in BatchSizes, o \in RemoteOutcomes}

ImageRequests ==
    {[BlankReq EXCEPT !.endpoint = "analyze-image", !.image_url = u, !.download = d]
        : u \in {"none", "url"}, d \in {"http_error", "error"}}
    \cup {[BlankReq EXCEPT !.endpoint = "analyze-image", !.image_url = "url",
                           !.remote = o] : o \in RemoteOutcomes}

Predictions ==
    {<<900, 50, 50>>, <<50, 905, 45>>, <<400, 400, 200>>, <<5, 995, 0>>,
     <<100, 215, 685>>, <<0, 1000, 0>>}

NsfwRequests ==
    {[BlankReq EXCEPT !.endpoint = "analyze-image-nsfw", !.image_url = u,
                      !.image_base64 = b, !.download = d, !.artifact = a,
                      !.prediction = p]
        : u \in {"none", "blank", "url"},
          b \in {"none", "blank", "data_uri", "raw_long", "raw_short"},
          d \in {"ok", "http_error", "error"},
          a \in {"present", "absent", "corrupt"},
          p \in Predictions}

AnalysisRequests == ContentRequests \cup BatchRequests \cup ImageRequests \cup NsfwRequests

(***************************************************************************)
(* The flagged-event store.                                                *)
(***************************************************************************)
\* A FlaggedEvent as submitted: n labels the event (it stands for the
\* summary text); detected_at is a time and whether it carries a timezone.
FlaggedEvent(n, category, user_id, tz) ==
    [n |-> n, category |-> category, user_id |-> user_id,
     detected_at |-> [iso |-> FALSE, t |-> n, tz |-> tz], id |-> "none"]

\* model_dump() with detected_at turned into its ISO string
_serialize_flagged_event(event) ==
    [event EXCEPT !.detected_at = [iso |-> TRUE, t |-> event.detected_at.t,
                                   tz |-> event.detected_at.tz]]

\* flagged_events.json: absent, or the JSON list last written
NoFile == [kind |-> "absent", events |-> <<>>]
JsonFile(events) == [kind |-> "json", events |-> events]

_load_flagged_events(file) == IF file.kind = "json" THEN file.events ELSE <<>>

\* an OSError while writing is logged and leaves the file as it was
_persist_flagged_events(file, events, disk_ok) ==
    IF disk_ok THEN JsonFile(events) ELSE file

\* trimming at the wrong end: the newest event is dropped
append_trim_flagged_drops_newest(cache, serialized) ==
    LET appended == Append(cache, serialized)
    IN IF Len(appended) > MAX_FLAGGED_EVENTS
       THEN SubSeq(appended, 1, MAX_FLAGGED_EVENTS)
       ELSE appended

\* append, then "del cache[0:overflow]"
append_trim_flagged(cache, serialized) ==
    LET appended == Append(cache, serialized)
        overflow == Len(appended) - MAX_FLAGGED_EVENTS
    IN IF Len(appended) > MAX_FLAGGED_EVENTS
       THEN SubSeq(appended, overflow + 1, Len(appended))
       ELSE appended

\* Responses of the store endpoints, one shape for all: writes fill status,
\* storage and added/total, reads fill items (and total, storage, error).
StoreResp(status, storage, added, total) ==
    [http |-> 200, status |-> status, storage |-> storage, added |-> added,
     total |-> total, items |-> <<>>, error |-> FALSE]
NoStoreResp ==
    [http |-> 0, status |-> "", storage |-> "", added |-> 0, total |-> 0,
     items |-> <<>>, error |-> FALSE]
StoreError(code) ==
    [http |-> code, status |-> "", storage |-> "", added |-> 0, total |-> 0,
     items |-> <<>>, error |-> FALSE]
ReadResp(items, total, storage, error) ==
    [http |-> 200, status |-> "", storage |-> storage, added |-> 0,
     total |-> total, items |-> items, error |-> error]

\* a selection that a fallen-back write switches to the local backend
remote_selected_until_fallback ==
    USE_FIREBASE /\ flagged_events_cache = <<>> /\ blur_reveal_cache = <<>>

\* "if USE_FIREBASE and db:" -- db is set exactly when USE_FIREBASE is
remote_selected == USE_FIREBASE

\* a local write that answers without keeping the event
store_flagged_nowhere(serialized, disk_ok, storage) ==
    /\ UNCHANGED <<flagged_events_cache, flagged_events_file, flagged_accepted>>
    /\ resp' = StoreResp("stored", storage, 1, Len(flagged_events_cache))

\* the local write of create_flagged_event (main.py:355-361 and 364-371)
store_flagged_locally(serialized, disk_ok, storage) ==
    LET cache == append_trim_flagged(flagged_events_cache, serialized)
    IN /\ flagged_events_cache' = cache
       /\ flagged_events_file' =
              _persist_flagged_events(flagged_events_file, cache, disk_ok)
       /\ flagged_accepted' = Append(flagged_accepted, serialized)
       /\ resp' = StoreResp("stored", storage, 1, Len(cache))

\* POST /flagged-events.  remote: how the Firestore write ends ("ok", or it
\* raises in document() or in set()); disk_ok: whether the file write works.
create_flagged_event(event, remote, disk_ok) ==
    LET serialized == _serialize_flagged_event(event)
        with_id == [serialized EXCEPT !.id = "auto"]
    IN /\ IF remote_selected
          THEN IF remote = "ok"
               THEN /\ firestore_flagged' = Append(firestore_flagged, with_id)
                    /\ resp' = StoreResp("stored", "firebase", 1, 0)
                    /\ UNCHANGED <<flagged_events_cache, flagged_events_file,
                                   flagged_accepted>>
               ELSE /\ store_flagged_locally(
                           IF remote = "set_raises" THEN with_id ELSE serialized,
                           disk_ok, "local_fallback")
                    /\ UNCHANGED firestore_flagged
          ELSE /\ store_flagged_locally(serialized, disk_ok, "local")
               /\ UNCHANGED firestore_flagged
       /\ handled' = handled + 1
       /\ UNCHANGED <<NSFW_MODEL, USE_FIREBASE, activityVars, revealVars,
                      load_attempts, lockVars>>

(***************************************************************************)
(* Reading the stores: filters, ordering, limit.                           *)
(***************************************************************************)
\* str.lower() on the category texts used here
lower(text) ==
    CASE text = "PROFANITY" -> "profanity"
      [] text = "KID@EXAMPLE.COM" -> "kid@example.com"
      [] text = " Kid.A@Example.com " -> " kid.a@example.com "
      [] OTHER -> text

\* "needle in hay" for those texts
is_substring(needle, hay) ==
    \/ needle = ""
    \/ needle = hay
    \/ needle = "prof" /\ hay = "profanity"

\* truthiness of an optional query parameter ("" stands for None)
given(param) == param # ""

RECURSIVE sort_keyed_desc(_)
\* list.sort(key=..., reverse=True) on [k, v] pairs: stable, largest key first.
\* A list whose keys strictly ascend is its own reverse when sorted; any
\* other list is sorted by inserting its last pair into the sorted rest.
sort_keyed_desc(pairs) ==
    IF pairs = <<>>
    THEN <<>>
    ELSE IF \A i \in 1..(Len(pairs) - 1) : pairs[i].k < pairs[i + 1].k
    THEN [i \in 1..Len(pairs) |-> pairs[Len(pairs) + 1 - i]]
    ELSE LET n == Len(pairs)
             x == pairs[n]
             sorted == sort_keyed_desc(SubSeq(pairs, 1, n - 1))
             pos == Cardinality({i \in 1..Len(sorted) : sorted[i].k >= x.k})
         IN SubSeq(sorted, 1, pos) \o <<x>> \o SubSeq(sorted, pos + 1, Len(sorted))

values_of(pairs) == [i \in 1..Len(pairs) |-> pairs[i].v]

\* events[:limit]
first_n(events, limit) ==
    LET n == Len(events)
        stop == IF limit >= 0
                THEN (IF limit < n THEN limit ELSE n)
                ELSE (IF n + limit > 0 THEN n + limit ELSE 0)
    IN SubSeq(events, 1, stop)

\* _parse_event_datetime: the datetime an ISO string stands for, else
\* datetime.min (which carries no timezone)
_parse_event_datetime(value) ==
    IF value.iso THEN [t |-> value.t, tz |-> value.tz] ELSE [t |-> -1000, tz |-> "naive"]

\* comparing a naive with an aware datetime raises TypeError; a sort of two
\* or more keys of both kinds makes such a comparison
sort_raises(events) ==
    \E i \in 2..Len(events) :
        _parse_event_datetime(events[i].detected_at).tz #
            _parse_event_datetime(events[1].detected_at).tz

\* Firestore orders the ISO strings as text: by the time written, and at
\* the same time the string without an offset first
iso_text_rank(value) == 2 * value.t + (IF value.tz = "aware" THEN 1 ELSE 0)

\* "limit = max(1, min(limit, MAX_FLAGGED_EVENTS))"
clamp_limit(limit) ==
    LET m == IF limit < MAX_FLAGGED_EVENTS THEN limit ELSE MAX_FLAGGED_EVENTS
    IN IF m > 1 THEN m ELSE 1

\* the remote branch of get_flagged_events (main.py:292-314)
read_flagged_remote(docs, limit, category, user_id, remote_ok) ==
    IF ~remote_ok
    THEN ReadResp(<<>>, 0, "", TRUE)
    ELSE LET matching == SelectSeq(docs, LAMBDA d :
                             /\ given(category) => d.category = category
                             /\ given(user_id) => d.user_id = user_id)
             keyed == [i \in 1..Len(matching) |->
                          [k |-> iso_text_rank(matching[i].detected_at),
                           v |-> [matching[i] EXCEPT !.id = "auto"]]]
         IN ReadResp(first_n(values_of(sort_keyed_desc(keyed)), limit), 0, "", FALSE)

\* the local branch of get_flagged_events (main.py:316-335)
read_flagged_local(cache, limit, category, user_id) ==
    LET by_category == SelectSeq(cache, LAMBDA e :
                           given(category) => is_substring(lower(category), lower(e.category)))
        events == SelectSeq(by_category, LAMBDA e : given(user_id) => e.user_id = user_id)
        keyed == [i \in 1..Len(events) |->
                     [k |-> _parse_event_datetime(events[i].detected_at).t,
                      v |-> events[i]]]
    IN IF sort_raises(events)
       THEN StoreError(500)
       ELSE ReadResp(first_n(values_of(sort_keyed_desc(keyed)), limit), 0, "", FALSE)

\* a read that adds the local collection to what the remote store returned
get_flagged_events_merging(limit, category, user_id, remote_ok) ==
    LET remote == read_flagged_remote(firestore_flagged, clamp_limit(limit),
                                      category, user_id, remote_ok)
    IN /\ resp' = IF remote_selected
                  THEN [remote EXCEPT !.items = @ \o flagged_events_cache]
                  ELSE read_flagged_local(flagged_events_cache, clamp_limit(limit),
                                          category, user_id)
       /\ handled' = handled + 1
       /\ UNCHANGED <<NSFW_MODEL, flaggedVars, activityVars, revealVars,
                      load_attempts, lockVars>>

\* GET /flagged-events
\* a local read that sorts the collection itself instead of a copy of it
get_flagged_events_sorting_in_place(limit, category, user_id, remote_ok) ==
    LET keyed == [i \in 1..Len(flagged_events_cache) |->
                     [k |-> _parse_event_datetime(flagged_events_cache[i].detected_at).t,
                      v |-> flagged_events_cache[i]]]
    IN /\ resp' = IF remote_selected
                  THEN read_flagged_remote(firestore_flagged, clamp_limit(limit),
                                           category, user_id, remote_ok)
                  ELSE read_flagged_local(flagged_events_cache, clamp_limit(limit),
                                          category, user_id)
       /\ flagged_events_cache' =
              IF remote_selected \/ sort_raises(flagged_events_cache)
              THEN flagged_events_cache
              ELSE values_of(sort_keyed_desc(keyed))
       /\ handled' = handled + 1
       /\ UNCHANGED <<NSFW_MODEL, USE_FIREBASE, flagged_events_file,
                      firestore_flagged, flagged_accepted, activityVars,
                      revealVars, load_attempts, lockVars>>

get_flagged_events(limit, category, user_id, remote_ok) ==
    /\ resp' = IF remote_selected
               THEN read_flagged_remote(firestore_flagged, clamp_limit(limit),
                                        category, user_id, remote_ok)
               ELSE read_flagged_local(flagged_events_cache, clamp_limit(limit),
                                       category, user_id)
    /\ handled' = handled + 1
    /\ UNCHANGED <<NSFW_MODEL, flaggedVars, activityVars, revealVars,
                   load_attempts, lockVars>>

\* the remote branch of get_blur_reveals (main.py:1360-1399)
read_reveals_remote(docs, limit, category, user_id, remote_ok) ==
    IF ~remote_ok
    THEN ReadResp(<<>>, 0, "", TRUE)
    ELSE LET matching == SelectSeq(docs, LAMBDA d :
                             /\ given(category) => d.category = category
                             /\ given(user_id) => d.user_id = user_id)
             keyed == [i \in 1..Len(matching) |->
                          [k |-> matching[i].revealed_at,
                           v |-> [matching[i] EXCEPT !.id = "auto"]]]
             reveals == first_n(values_of(sort_keyed_desc(keyed)), limit)
         IN ReadResp(reveals, Len(reveals), "firebase", FALSE)

\* the local branch of get_blur_reveals (main.py:1401-1430)
read_reveals_local(cache, limit, category, user_id) ==
    LET by_category == SelectSeq(cache, LAMBDA r :
                           given(category) => is_substring(lower(category), lower(r.category)))
        reveals == SelectSeq(by_category, LAMBDA r : given(user_id) => r.user_id = user_id)
        keyed == [i \in 1..Len(reveals) |-> [k |-> reveals[i].revealed_at, v |-> reveals[i]]]
    IN ReadResp(first_n(values_of(sort_keyed_desc(keyed)), limit), Len(reveals),
                "local", FALSE)

\* GET /blur-reveals
get_blur_reveals(limit, category, user_id, remote_ok) ==
    /\ resp' = IF remote_selected
               THEN read_reveals_remote(firestore_reveals, limit, category,
                                        user_id, remote_ok)
               ELSE read_reveals_local(blur_reveal_cache, limit, category, user_id)
    /\ handled' = handled + 1
    /\ UNCHANGED <<NSFW_MODEL, flaggedVars, activityVars, revealVars,
                   load_attempts, lockVars>>

(***************************************************************************)
(* The activity-log store.                                                 *)
(***************************************************************************)
Families == {"famA", "famB"}

ActivityLog(id, familyId, userEmail) ==
    [id |-> id, familyId |-> familyId, userEmail |-> userEmail, timestamp |-> id]

NoPartitions == [f \in {} |-> <<>>]

\* activity_logs_cache.get(family_id, [])
partition(cache, family_id) ==
    IF family_id \in DOMAIN cache THEN cache[family_id] ELSE <<>>

with_partition(cache, family_id, logs) ==
    [f \in DOMAIN cache \cup {family_id} |-> IF f = family_id THEN logs ELSE cache[f]]

\* trimming with logs[:MAX] instead of logs[-MAX:]
trim_activity_keeps_oldest(logs) ==
    IF Len(logs) > MAX_ACTIVITY_LOGS_PER_FAMILY
    THEN SubSeq(logs, 1, MAX_ACTIVITY_LOGS_PER_FAMILY)
    ELSE logs

\* "if len(logs) > MAX: logs = logs[-MAX:]"
trim_activity(logs) ==
    IF Len(logs) > MAX_ACTIVITY_LOGS_PER_FAMILY
    THEN SubSeq(logs, Len(logs) - MAX_ACTIVITY_LOGS_PER_FAMILY + 1, Len(logs))
    ELSE logs

\* POST /activity-logs.  remote_ok: whether the Firestore set() works (it is
\* attempted only when Firebase is in use; a failure is logged).
sync_activity_log(log, remote_ok) ==
    LET family_id == log.familyId
        logs == trim_activity(Append(partition(activity_logs_cache, family_id), log))
    IN /\ activity_logs_cache' = with_partition(activity_logs_cache, family_id, logs)
       /\ activity_accepted' = [activity_accepted EXCEPT ![family_id] = Append(@, log)]
       /\ firestore_activity' =
              IF USE_FIREBASE /\ remote_ok
              THEN {d \in firestore_activity :
                        ~(d.family = family_id /\ d.id = log.id)}
                   \cup {[family |-> family_id, id |-> log.id, log |-> log]}
              ELSE firestore_activity
       /\ resp' = StoreResp("synced", "", 1, Len(logs))
       /\ handled' = handled + 1
       /\ UNCHANGED <<NSFW_MODEL, flaggedVars, firestore_members, revealVars,
                      load_attempts, lockVars>>

\* "[log for log in logs if log.get('id') not in existing_ids]"
without_ids(logs, existing_ids) ==
    SelectSeq(logs, LAMBDA log : log.id \notin existing_ids)

\* POST /activity-logs/batch.  family_id "" stands for a missing familyId.
sync_activity_logs_batch(family_id, logs) ==
    IF family_id = ""
    THEN /\ resp' = StoreError(400)
         /\ handled' = handled + 1
         /\ UNCHANGED <<NSFW_MODEL, flaggedVars, activityVars, revealVars,
                        load_attempts, lockVars>>
    ELSE LET stored == partition(activity_logs_cache, family_id)
             existing_ids == {stored[i].id : i \in 1..Len(stored)}
             new_logs == without_ids(logs, existing_ids)
             kept == trim_activity(stored \o new_logs)
         IN /\ activity_logs_cache' =
                   with_partition(activity_logs_cache, family_id, kept)
            /\ activity_accepted' =
                   [activity_accepted EXCEPT ![family_id] = @ \o new_logs]
            /\ resp' = StoreResp("synced", "", Len(new_logs), Len(kept))
            /\ handled' = handled + 1
            /\ UNCHANGED <<NSFW_MODEL, flaggedVars, firestore_activity,
                           firestore_members, revealVars, load_attempts, lockVars>>

\* the sort key of sorted(logs, key=lambda x: x.get("timestamp", ""))
keyed_by_timestamp(logs) ==
    [i \in 1..Len(logs) |-> [k |-> logs[i].timestamp, v |-> logs[i]]]

\* GET /activity-logs/{family_id}: the partition's logs (none for a family
\* that has no partition), those of user_email when it is given, newest
\* first; "total" counts them before the limit cuts the list.
get_activity_logs(family_id, user_email, limit) ==
    LET logs == partition(activity_logs_cache, family_id)
        matching == SelectSeq(logs, LAMBDA log :
                        given(user_email) => lower(log.userEmail) = lower(user_email))
        sorted == values_of(sort_keyed_desc(keyed_by_timestamp(matching)))
    IN /\ resp' = ReadResp(first_n(sorted, limit), Len(matching), "", FALSE)
       /\ handled' = handled + 1
       /\ UNCHANGED <<NSFW_MODEL, flaggedVars, activityVars, revealVars,
                      load_attempts, lockVars>>

(***************************************************************************)
(* The member list of a family.                                            *)
(***************************************************************************)
\* str.strip() on the plain texts the requests carry
strip_text(text) ==
    CASE text = " kid.a@example.com " -> "kid.a@example.com"
      [] OTHER -> text

\* email_lower.replace('@', '_at_').replace('.', '_dot_')
safe_doc_id(email_lower) ==
    CASE email_lower = "kid.a@example.com" -> "kid_dot_a_at_example_dot_com"
      [] email_lower = "kid_dot_a@example.com" -> "kid_dot_a_at_example_dot_com"
      [] email_lower = "mum@example.com" -> "mum_at_example_dot_com"
      [] OTHER -> email_lower

\* email_lower.split('@')[0]
local_part(email_lower) ==
    CASE email_lower = "kid.a@example.com" -> "kid.a"
      [] email_lower = "kid_dot_a@example.com" -> "kid_dot_a"
      [] email_lower = "mum@example.com" -> "mum"
      [] OTHER -> email_lower

RegisterMemberRequest(familyId, email, name) ==
    [familyId |-> familyId, email |-> email, name |-> name]

MemberResp(status, email, memberId) ==
    [http |-> 200, status |-> status, email |-> email, memberId |-> memberId]

\* the query that never finds a member
existing_docs_unchecked(family_id, email_lower) == {}

\* members_ref.where('email', '==', email_lower).limit(1).stream()
existing_docs(family_id, email_lower) ==
    {d \in firestore_members : d.family = family_id /\ d.doc.email = email_lower}

\* POST /register-member.  remote: "ok", or the Firestore call that raises;
\* now: the reading of datetime.utcnow(), later for every later request.
register_family_member(request, remote, now) ==
    LET email_lower == strip_text(lower(request.email))
        found == existing_docs(request.familyId, email_lower)
        safe_id == safe_doc_id(email_lower)
        member_data == [email |-> email_lower,
                        name |-> IF request.name # "" THEN request.name
                                 ELSE local_part(email_lower),
                        status |-> "Online", lastSeen |-> now, addedAt |-> now]
        failed == /\ resp' = MemberResp("error", request.email, "")
                  /\ firestore_members' = firestore_members
    IN /\ IF ~USE_FIREBASE \/ remote = "query_raises"
          THEN failed
          ELSE IF found # {}
          THEN IF remote = "write_raises"
               THEN failed
               ELSE \E d \in found :
                       /\ firestore_members' =
                              (firestore_members \ {d}) \cup
                              {[d EXCEPT !.doc.lastSeen = now,
                                         !.doc.status = "Online"]}
                       /\ resp' = MemberResp("exists", email_lower, d.id)
          ELSE IF remote = "write_raises"
               THEN failed
               ELSE /\ firestore_members' =
                           {d \in firestore_members :
                                ~(d.family = request.familyId /\ d.id = safe_id)}
                           \cup {[family |-> request.familyId, id |-> safe_id,
                                  doc |-> member_data]}
                    /\ resp' = MemberResp("added", email_lower, safe_id)
       /\ handled' = handled + 1
       /\ UNCHANGED <<NSFW_MODEL, flaggedVars, activity_logs_cache,
                      firestore_activity, activity_accepted, revealVars,
                      load_attempts, lockVars>>

(***************************************************************************)
(* The reveal-event store.                                                 *)
(***************************************************************************)
\* A BlurRevealEvent as submitted: n labels the event (it stands for
\* page_url and source); revealed_at is the client's time string, kept as
\* the number its fixed-width text stands for.
BlurRevealEvent(n, category, user_id, revealed_at) ==
    [n |-> n, category |-> category, user_id |-> user_id,
     revealed_at |-> revealed_at, id |-> "none"]

\* reveal_data: the event's fields and a locally made id
reveal_data_of(event) == [event EXCEPT !.id = "reveal"]

\* taking the newest event off instead of the oldest
append_pop_reveal_drops_newest(cache, reveal_data) ==
    LET appended == Append(cache, reveal_data)
    IN IF Len(appended) > MAX_BLUR_REVEALS
       THEN SubSeq(appended, 1, Len(appended) - 1)
       ELSE appended

\* append, then "if len(cache) > MAX_BLUR_REVEALS: cache.pop(0)"
append_pop_reveal(cache, reveal_data) ==
    LET appended == Append(cache, reveal_data)
    IN IF Len(appended) > MAX_BLUR_REVEALS THEN Tail(appended) ELSE appended

\* the local write of track_blur_reveal (main.py:1331-1335 and 1337-1345)
store_reveal_locally(reveal_data, storage) ==
    LET cache == append_pop_reveal(blur_reveal_cache, reveal_data)
    IN /\ blur_reveal_cache' = cache
       /\ reveal_accepted' = Append(reveal_accepted, reveal_data)
       /\ resp' = StoreResp("tracked", storage, 1, Len(cache))

\* POST /track-blur-reveal.  remote: how the Firestore write ends ("ok", or
\* it raises in document() or in set()).
track_blur_reveal(event, remote) ==
    LET reveal_data == reveal_data_of(event)
        with_id == [reveal_data EXCEPT !.id = "auto"]
    IN /\ IF remote_selected
          THEN IF remote = "ok"
               THEN /\ firestore_reveals' = Append(firestore_reveals, with_id)
                    /\ resp' = StoreResp("tracked", "firebase", 1, 0)
                    /\ UNCHANGED <<blur_reveal_cache, reveal_accepted>>
               ELSE /\ store_reveal_locally(
                           IF remote = "set_raises" THEN with_id ELSE reveal_data,
                           "local_fallback")
                    /\ UNCHANGED firestore_reveals
          ELSE /\ store_reveal_locally(reveal_data, "local")
               /\ UNCHANGED firestore_reveals
       /\ handled' = handled + 1
       /\ UNCHANGED <<NSFW_MODEL, flaggedVars, activityVars, load_attempts,
                      lockVars>>

(***************************************************************************)
(* Initial states.                                                         *)
(***************************************************************************)
FlaggedStoreEmpty ==
    /\ USE_FIREBASE = FALSE
    /\ flagged_events_cache = <<>>
    /\ flagged_events_file = NoFile
    /\ firestore_flagged = <<>>
    /\ flagged_accepted = <<>>

ActivityStoreEmpty ==
    /\ activity_logs_cache = NoPartitions
    /\ firestore_activity = {}
    /\ activity_accepted = [f \in Families |-> <<>>]
    /\ firestore_members = {}

RevealStoreEmpty ==
    /\ blur_reveal_cache = <<>>
    /\ firestore_reveals = <<>>
    /\ reveal_accepted = <<>>

NoCallers ==
    /\ pc = <<>>
    /\ _flagged_events_lock = 0
    /\ lock_order = <<>>

NoRequest ==
    /\ req = BlankReq
    /\ NSFW_MODEL = "None"
    /\ load_attempts = 0
    /\ handled = 0

(***************************************************************************)
(* SpecAnalyze: one request of an analysis endpoint and its response.      *)
(***************************************************************************)
InitAnalyze ==
    /\ req \in AnalysisRequests
    /\ resp = NoResp
    /\ NSFW_MODEL \in {"None", "loaded"}
    /\ req.endpoint # "analyze-image-nsfw" => NSFW_MODEL = "None"
    /\ FlaggedStoreEmpty
    /\ ActivityStoreEmpty
    /\ RevealStoreEmpty
    /\ NoCallers
    /\ load_attempts = 0
    /\ handled = 0

Pending(endpoint) == req.endpoint = endpoint /\ resp = NoResp

AnalyzeContent ==
    /\ Pending("analyze-content")
    /\ resp' = analyze_content(req)
    /\ UNCHANGED <<req, NSFW_MODEL, flaggedVars, activityVars, revealVars,
                   load_attempts, lockVars, handled>>

AnalyzeBatch ==
    /\ Pending("analyze-batch")
    /\ resp' = analyze_batch(req)
    /\ UNCHANGED <<req, NSFW_MODEL, flaggedVars, activityVars, revealVars,
                   load_attempts, lockVars, handled>>

AnalyzeImage ==
    /\ Pending("analyze-image")
    /\ resp' = analyze_image(req)
    /\ UNCHANGED <<req, NSFW_MODEL, flaggedVars, activityVars, revealVars,
                   load_attempts, lockVars, handled>>

\* one call of POST /analyze-image-nsfw with request r: the response and
\* what predict_nsfw's call of load_nsfw_model leaves in NSFW_MODEL
nsfw_call(r) ==
    /\ resp' = analyze_image_nsfw(r, NSFW_MODEL)
    /\ NSFW_MODEL' = IF nsfw_predicts(r)
                     THEN load_nsfw_model(NSFW_MODEL, r.artifact)
                     ELSE NSFW_MODEL
    /\ load_attempts' = IF nsfw_predicts(r) /\ load_attempted(NSFW_MODEL)
                        THEN load_attempts + 1
                        ELSE load_attempts

AnalyzeImageNsfw ==
    /\ Pending("analyze-image-nsfw")
    /\ nsfw_call(req)
    /\ UNCHANGED <<req, flaggedVars, activityVars, revealVars, lockVars, handled>>

NextAnalyze == AnalyzeContent \/ AnalyzeBatch \/ AnalyzeImage \/ AnalyzeImageNsfw

SpecAnalyze == InitAnalyze /\ [][NextAnalyze]_vars

(***************************************************************************)
(* SpecFlagged: one run of the process writing flagged events.  The file   *)
(* holds what an earlier run left (labels <= 0); the events of this run    *)
(* are labelled 1, 2, ... in the order the local collection accepts them.  *)
(***************************************************************************)
PreviousRun(k) ==
    [i \in 1..k |-> _serialize_flagged_event(FlaggedEvent(i - k, "profanity", "u1", "naive"))]

PreviousFiles ==
    {NoFile} \cup {JsonFile(PreviousRun(k))
                     : k \in {1, MAX_FLAGGED_EVENTS - 1, MAX_FLAGGED_EVENTS}}

InitFlagged ==
    /\ USE_FIREBASE \in BOOLEAN
    /\ flagged_events_file \in PreviousFiles
    /\ flagged_events_cache =
           IF USE_FIREBASE THEN <<>> ELSE _load_flagged_events(flagged_events_file)
    /\ firestore_flagged = <<>>
    /\ flagged_accepted = flagged_events_cache
    /\ resp = NoStoreResp
    /\ ActivityStoreEmpty
    /\ RevealStoreEmpty
    /\ NoCallers
    /\ NoRequest

\* label of the next event the local collection accepts
NextLabel ==
    IF flagged_accepted = <<>> \/ flagged_accepted[Len(flagged_accepted)].n < 1
    THEN 1
    ELSE flagged_accepted[Len(flagged_accepted)].n + 1

CreateFlaggedEvent ==
    \E remote \in {"ok", "set_raises"} :
        /\ NextLabel <= MaxFlaggedWrites
        /\ remote = "ok" => handled < MaxFirestoreDocs
        /\ create_flagged_event(FlaggedEvent(NextLabel, "profanity", "u1", "naive"),
                                remote, TRUE)
        /\ UNCHANGED req

NextFlagged == CreateFlaggedEvent

SpecFlagged == InitFlagged /\ [][NextFlagged]_vars

(***************************************************************************)
(* SpecSync: a few syncs of short batches whose ids repeat, each request   *)
(* recorded in req.                                                        *)
(***************************************************************************)
InitSync ==
    /\ USE_FIREBASE \in BOOLEAN
    /\ flagged_events_cache = <<>>
    /\ flagged_events_file = NoFile
    /\ firestore_flagged = <<>>
    /\ flagged_accepted = <<>>
    /\ ActivityStoreEmpty
    /\ RevealStoreEmpty
    /\ NoCallers
    /\ resp = NoStoreResp
    /\ NoRequest

SyncRequest(endpoint, family_id, logs) ==
    [endpoint |-> endpoint, familyId |-> family_id, logs |-> logs,
     user_email |-> "", limit |-> 0]

\* logs arrays of up to two entries with ids in 1..MaxLogId, and one whose
\* log names another family than the request's familyId
ShortBatches(f) ==
    {<<>>, <<ActivityLog(1, CHOOSE g \in Families : g # f, "kid@example.com")>>}
    \cup {<<ActivityLog(i, f, "kid@example.com")>> : i \in 1..MaxLogId}
    \cup {<<ActivityLog(i, f, "kid@example.com"), ActivityLog(j, f, "kid@example.com")>>
            : i \in 1..MaxLogId, j \in 1..MaxLogId}

PostActivityLog ==
    \E f \in Families, i \in 1..MaxLogId, remote_ok \in BOOLEAN :
        /\ handled < MaxSmallSyncs
        /\ ~USE_FIREBASE => remote_ok
        /\ sync_activity_log(ActivityLog(i, f, "kid@example.com"), remote_ok)
        /\ req' = SyncRequest("activity-logs", f,
                               <<ActivityLog(i, f, "kid@example.com")>>)

PostActivityLogsBatch ==
    \E f \in Families \cup {""} :
        /\ handled < MaxSmallSyncs
        /\ \E logs \in (IF f = "" THEN {<<>>} ELSE ShortBatches(f)) :
              /\ sync_activity_logs_batch(f, logs)
              /\ req' = SyncRequest("activity-logs/batch", f, logs)

\* reads of a family's logs: any integer limit, user_email absent, written
\* in another case than stored, or unknown
LogQueries ==
    {[user_email |-> e, limit |-> l]
        : e \in {"", "KID@EXAMPLE.COM", "nobody@example.com"},
          l \in {-1, 0, 1, 100}}

GetFamilyLogs ==
    \E f \in Families, query \in LogQueries :
        /\ handled < MaxSmallSyncs
        /\ get_activity_logs(f, query.user_email, query.limit)
        /\ req' = [SyncRequest("GET activity-logs", f, <<>>)
                      EXCEPT !.user_email = query.user_email,
                             !.limit = query.limit]

NextSync == PostActivityLog \/ PostActivityLogsBatch \/ GetFamilyLogs

SpecSync == InitSync /\ [][NextSync]_vars

(***************************************************************************)
(* SpecGateway: writes and reads of flagged events and reveal events on    *)
(* either backend, each request recorded in req.  The k-th request's event *)
(* is labelled k; its time is k (later than every earlier event) or -k     *)
(* (earlier than every earlier event).  The remote store may hold          *)
(* documents written before this run (label 0).                            *)
(***************************************************************************)
GatewayRequest(endpoint, n, remote, disk_ok, query) ==
    [endpoint |-> endpoint, n |-> n, remote |-> remote, disk_ok |-> disk_ok,
     limit |-> query.limit, category |-> query.category, user_id |-> query.user_id,
     familyId |-> ""]

\* a request of the activity-log endpoints: user_id holds user_email
ActivityRequest(endpoint, n, family_id, user_email, limit) ==
    [GatewayRequest(endpoint, n, "ok", TRUE,
                    [limit |-> limit, category |-> "", user_id |-> user_email])
        EXCEPT !.familyId = family_id]

NoQuery == [limit |-> 0, category |-> "", user_id |-> ""]

EventProfiles ==
    {[category |-> "profanity", user_id |-> "u1", tz |-> "naive"],
     [category |-> "scam", user_id |-> "u2", tz |-> "aware"]}

ReadQueries ==
    {[limit |-> 25, category |-> "", user_id |-> ""],
     [limit |-> 1, category |-> "", user_id |-> ""],
     [limit |-> 25, category |-> "prof", user_id |-> ""],
     [limit |-> 25, category |-> "PROFANITY", user_id |-> ""],
     [limit |-> 25, category |-> "", user_id |-> "u1"],
     [limit |-> 25, category |-> "malware", user_id |-> ""],
     [limit |-> 25, category |-> "", user_id |-> "u9"]}

PriorFlaggedDoc ==
    [_serialize_flagged_event(FlaggedEvent(0, "profanity", "u1", "naive"))
        EXCEPT !.id = "auto"]

PriorRevealDoc ==
    [reveal_data_of(BlurRevealEvent(0, "profanity", "u1", 0)) EXCEPT !.id = "auto"]

InitGateway ==
    /\ USE_FIREBASE \in BOOLEAN
    /\ flagged_events_cache = <<>>
    /\ flagged_events_file = NoFile
    /\ flagged_accepted = <<>>
    /\ blur_reveal_cache = <<>>
    /\ reveal_accepted = <<>>
    /\ \E prior \in BOOLEAN :
          /\ firestore_flagged = IF prior THEN <<PriorFlaggedDoc>> ELSE <<>>
          /\ firestore_reveals = IF prior THEN <<PriorRevealDoc>> ELSE <<>>
    /\ ActivityStoreEmpty
    /\ NoCallers
    /\ resp = NoStoreResp
    /\ NoRequest

CallNumber == handled + 1

PostFlaggedEvent ==
    \E profile \in EventProfiles, n \in {CallNumber, -CallNumber},
       remote \in {"ok", "set_raises"}, disk_ok \in BOOLEAN :
        /\ handled < MaxGatewayCalls
        /\ ~USE_FIREBASE => remote = "ok"
        /\ (USE_FIREBASE /\ remote = "ok") => disk_ok
        /\ create_flagged_event(
               FlaggedEvent(n, profile.category, profile.user_id, profile.tz),
               remote, disk_ok)
        /\ req' = GatewayRequest("POST /flagged-events", n, remote, disk_ok, NoQuery)

PostBlurReveal ==
    \E profile \in EventProfiles, t \in {CallNumber, -CallNumber},
       remote \in {"ok", "set_raises"} :
        /\ handled < MaxGatewayCalls
        /\ ~USE_FIREBASE => remote = "ok"
        /\ track_blur_reveal(
               BlurRevealEvent(CallNumber, profile.category, profile.user_id, t),
               remote)
        /\ req' = GatewayRequest("POST /track-blur-reveal", CallNumber, remote, TRUE,
                                 NoQuery)

GetFlaggedEvents ==
    \E query \in ReadQueries, remote_ok \in BOOLEAN :
        /\ handled < MaxGatewayCalls
        /\ ~USE_FIREBASE => remote_ok
        /\ get_flagged_events(query.limit, query.category, query.user_id, remote_ok)
        /\ req' = GatewayRequest("GET /flagged-events", 0,
                                 IF remote_ok THEN "ok" ELSE "read_raises", TRUE, query)

GetBlurReveals ==
    \E query \in ReadQueries, remote_ok \in BOOLEAN :
        /\ handled < MaxGatewayCalls
        /\ ~USE_FIREBASE => remote_ok
        /\ get_blur_reveals(query.limit, query.category, query.user_id, remote_ok)
        /\ req' = GatewayRequest("GET /blur-reveals", 0,
                                 IF remote_ok THEN "ok" ELSE "read_raises", TRUE, query)

\* an extension syncs one log of the family "famA"
PostFamilyLog ==
    /\ handled < MaxGatewayCalls
    /\ sync_activity_log(ActivityLog(CallNumber, "famA", "kid@example.com"), TRUE)
    /\ req' = ActivityRequest("POST /activity-logs", CallNumber, "famA",
                              "kid@example.com", 0)

ActivityQueries ==
    {[familyId |-> "famA", user_email |-> "", limit |-> 100],
     [familyId |-> "famA", user_email |-> "kid@example.com", limit |-> 1],
     [familyId |-> "famA", user_email |-> "nobody@example.com", limit |-> 100],
     [familyId |-> "famB", user_email |-> "", limit |-> 100]}

GetActivityLogs ==
    \E query \in ActivityQueries :
        /\ handled < MaxGatewayCalls
        /\ get_activity_logs(query.familyId, query.user_email, query.limit)
        /\ req' = ActivityRequest("GET /activity-logs", 0, query.familyId,
                                  query.user_email, query.limit)

NextGateway ==
    \/ PostFlaggedEvent
    \/ PostBlurReveal
    \/ GetFlaggedEvents
    \/ GetBlurReveals
    \/ PostFamilyLog
    \/ GetActivityLogs

SpecGateway == InitGateway /\ [][NextGateway]_vars

(***************************************************************************)
(* SpecLocked: k callers of POST /flagged-events on the local path, each   *)
(* at its own position in the handler; the steps of different callers      *)
(* interleave freely except where the lock orders them.  Caller c posts    *)
(* the event labelled c.                                                   *)
(***************************************************************************)
\* an acquire that does not wait for the holder
lock_ignored == TRUE

\* "with _flagged_events_lock:" is entered only while nobody holds the lock
lock_free == _flagged_events_lock = 0

InitLocked ==
    /\ USE_FIREBASE = FALSE
    /\ flagged_events_file \in
           {NoFile} \cup {JsonFile(PreviousRun(s))
                            : s \in {MAX_FLAGGED_EVENTS - MaxCallers,
                                     MAX_FLAGGED_EVENTS - 1}}
    /\ flagged_events_cache = _load_flagged_events(flagged_events_file)
    /\ firestore_flagged = <<>>
    /\ flagged_accepted = flagged_events_cache
    /\ ActivityStoreEmpty
    /\ RevealStoreEmpty
    /\ \E k \in 1..MaxCallers : pc = [c \in 1..k |-> "start"]
    /\ _flagged_events_lock = 0
    /\ lock_order = <<>>
    /\ resp = NoStoreResp
    /\ NoRequest

CallerEvent(c) == _serialize_flagged_event(FlaggedEvent(c, "profanity", "u1", "naive"))

LockedFrame ==
    UNCHANGED <<req, NSFW_MODEL, USE_FIREBASE, firestore_flagged, activityVars,
                revealVars, load_attempts>>

\* main.py:364  with _flagged_events_lock:
AcquireLock(c) ==
    /\ pc[c] = "start"
    /\ lock_free
    /\ _flagged_events_lock' = c
    /\ lock_order' = Append(lock_order, c)
    /\ pc' = [pc EXCEPT ![c] = "append"]
    /\ UNCHANGED <<flagged_events_cache, flagged_events_file, flagged_accepted,
                   resp, handled>>
    /\ LockedFrame

\* main.py:365  flagged_events_cache.append(serialized)
AppendEvent(c) ==
    /\ pc[c] = "append"
    /\ flagged_events_cache' = Append(flagged_events_cache, CallerEvent(c))
    /\ flagged_accepted' = Append(flagged_accepted, CallerEvent(c))
    /\ pc' = [pc EXCEPT ![c] = "trim"]
    /\ UNCHANGED <<flagged_events_file, _flagged_events_lock, lock_order, resp,
                   handled>>
    /\ LockedFrame

\* main.py:366-368  del flagged_events_cache[0:overflow]
TrimEvents(c) ==
    /\ pc[c] = "trim"
    /\ flagged_events_cache' =
           IF Len(flagged_events_cache) > MAX_FLAGGED_EVENTS
           THEN SubSeq(flagged_events_cache,
                       Len(flagged_events_cache) - MAX_FLAGGED_EVENTS + 1,
                       Len(flagged_events_cache))
           ELSE flagged_events_cache
    /\ pc' = [pc EXCEPT ![c] = "persist"]
    /\ UNCHANGED <<flagged_events_file, flagged_accepted, _flagged_events_lock,
                   lock_order, resp, handled>>
    /\ LockedFrame

\* main.py:369  _persist_flagged_events(flagged_events_cache), then the
\* with block ends and the lock is released
PersistAndRelease(c) ==
    /\ pc[c] = "persist"
    /\ flagged_events_file' =
           _persist_flagged_events(flagged_events_file, flagged_events_cache, TRUE)
    /\ _flagged_events_lock' =
           IF _flagged_events_lock = c THEN 0 ELSE _flagged_events_lock
    /\ pc' = [pc EXCEPT ![c] = "respond"]
    /\ UNCHANGED <<flagged_events_cache, flagged_accepted, lock_order, resp, handled>>
    /\ LockedFrame

\* main.py:371  return {"status": "stored", "items": len(cache), ...}
Respond(c) ==
    /\ pc[c] = "respond"
    /\ resp' = StoreResp("stored", "local", 1, Len(flagged_events_cache))
    /\ handled' = handled + 1
    /\ pc' = [pc EXCEPT ![c] = "done"]
    /\ UNCHANGED <<flagged_events_cache, flagged_events_file, flagged_accepted,
                   _flagged_events_lock, lock_order>>
    /\ LockedFrame

NextLocked ==
    \E c \in DOMAIN pc :
        \/ AcquireLock(c)
        \/ AppendEvent(c)
        \/ TrimEvents(c)
        \/ PersistAndRelease(c)
        \/ Respond(c)

SpecLocked == InitLocked /\ [][NextLocked]_vars

(***************************************************************************)
(* SpecLoad: several callers of load_nsfw_model arriving before any model  *)
(* is held.  Both callers of the loader, POST /analyze-image-nsfw (through *)
(* predict_nsfw) and GET /nsfw-model-status, are "async def" handlers with *)
(* no await in their bodies, so the event loop runs each of them from its  *)
(* first line to its return before it starts another.  pc[c] holds the     *)
(* caller's position and the value load_nsfw_model returned to it.         *)
(***************************************************************************)
LoaderEndpoints == {"analyze-image-nsfw", "nsfw-model-status"}

\* a handler that could be suspended between any two statements
yields_anywhere(at) == TRUE

\* the positions at which a handler hands control back to the event loop:
\* before it is started and after it has returned
yields(at) == at \in {"start", "done"}

\* the event loop runs caller c while no other handler is in mid-body
on_event_loop(c) == \A d \in DOMAIN pc \ {c} : yields(pc[d].at)

InitLoad ==
    /\ \E a \in {"present", "absent", "corrupt"} :
           req = [BlankReq EXCEPT !.endpoint = "analyze-image-nsfw",
                                  !.image_url = "url", !.download = "ok",
                                  !.artifact = a]
    /\ resp = NoResp
    /\ NSFW_MODEL = "None"
    /\ load_attempts = 0
    /\ handled = 0
    /\ USE_FIREBASE = FALSE
    /\ FlaggedStoreEmpty
    /\ ActivityStoreEmpty
    /\ RevealStoreEmpty
    /\ \E k \in 1..MaxCallers :
           pc \in [1..k -> {[at |-> "start", endpoint |-> e, model_data |-> "unset"]
                               : e \in LoaderEndpoints}]
    /\ _flagged_events_lock = 0
    /\ lock_order = <<>>

LoadFrame ==
    UNCHANGED <<req, resp, USE_FIREBASE, flaggedVars, activityVars, revealVars,
                _flagged_events_lock, lock_order>>

\* main.py:29  if NSFW_MODEL is None:
TestModel(c) ==
    /\ pc[c].at = "start"
    /\ on_event_loop(c)
    /\ pc' = [pc EXCEPT ![c].at = IF load_attempted(NSFW_MODEL)
                                  THEN "load" ELSE "return"]
    /\ UNCHANGED <<NSFW_MODEL, load_attempts, handled>>
    /\ LoadFrame

\* main.py:30-62  the artefact is looked for, read and installed
LoadBundle(c) ==
    /\ pc[c].at = "load"
    /\ on_event_loop(c)
    /\ NSFW_MODEL' = load_nsfw_model("None", req.artifact)
    /\ load_attempts' = load_attempts + 1
    /\ pc' = [pc EXCEPT ![c].at = "return"]
    /\ UNCHANGED handled
    /\ LoadFrame

\* main.py:64  return NSFW_MODEL, which the handler then uses
ReturnModel(c) ==
    /\ pc[c].at = "return"
    /\ on_event_loop(c)
    /\ pc' = [pc EXCEPT ![c].at = "done", ![c].model_data = NSFW_MODEL]
    /\ handled' = handled + 1
    /\ UNCHANGED <<NSFW_MODEL, load_attempts>>
    /\ LoadFrame

NextLoad ==
    \E c \in DOMAIN pc :
        \/ TestModel(c)
        \/ LoadBundle(c)
        \/ ReturnModel(c)

SpecLoad == InitLoad /\ [][NextLoad]_vars

(***************************************************************************)
(* SpecNsfw: one process answering several POST /analyze-image-nsfw calls; *)
(* the model artefact may be present, absent or unreadable at each call.   *)
(***************************************************************************)
InitNsfw ==
    /\ req = BlankReq
    /\ resp = NoResp
    /\ NSFW_MODEL = "None"
    /\ load_attempts = 0
    /\ handled = 0
    /\ FlaggedStoreEmpty
    /\ ActivityStoreEmpty
    /\ RevealStoreEmpty
    /\ NoCallers

NsfwCalls ==
    {r \in NsfwRequests :
        /\ r.image_url = "url"
        /\ r.image_base64 \in {"none", "data_uri"}
        /\ r.download \in {"ok", "error"}
        /\ r.prediction \in {<<900, 50, 50>>, <<50, 905, 45>>}}

CallAnalyzeImageNsfw ==
    \E r \in NsfwCalls :
        /\ handled < MaxNsfwCalls
        /\ req' = r
        /\ nsfw_call(r)
        /\ handled' = handled + 1
        /\ UNCHANGED <<flaggedVars, activityVars, revealVars, lockVars>>

NextNsfw == CallAnalyzeImageNsfw

SpecNsfw == InitNsfw /\ [][NextNsfw]_vars

(***************************************************************************)
(* SpecReveals: one run of the process tracking reveal events, labelled    *)
(* 1, 2, ... in the order the local collection accepts them.               *)
(***************************************************************************)
InitReveals ==
    /\ USE_FIREBASE \in BOOLEAN
    /\ flagged_events_cache = <<>>
    /\ flagged_events_file = NoFile
    /\ firestore_flagged = <<>>
    /\ flagged_accepted = <<>>
    /\ ActivityStoreEmpty
    /\ RevealStoreEmpty
    /\ NoCallers
    /\ resp = NoStoreResp
    /\ NoRequest

NextRevealLabel == Len(reveal_accepted) + 1

TrackBlurReveal ==
    \E remote \in {"ok", "set_raises", "document_raises"} :
        /\ NextRevealLabel <= MaxRevealWrites
        /\ remote = "ok" => handled < MaxFirestoreDocs
        /\ remote = "document_raises" => handled < MaxFirestoreDocs
        /\ track_blur_reveal(
               BlurRevealEvent(NextRevealLabel, "profanity", "u1", NextRevealLabel),
               remote)
        /\ UNCHANGED req

NextReveals == TrackBlurReveal

SpecReveals == InitReveals /\ [][NextReveals]_vars

(***************************************************************************)
(* SpecActivity: single and batch syncs of activity logs.  Ids are numbers *)
(* per family; a fresh id is larger than every id submitted before.        *)
(***************************************************************************)
InitActivity ==
    /\ USE_FIREBASE \in BOOLEAN
    /\ flagged_events_cache = <<>>
    /\ flagged_events_file = NoFile
    /\ firestore_flagged = <<>>
    /\ flagged_accepted = <<>>
    /\ ActivityStoreEmpty
    /\ RevealStoreEmpty
    /\ NoCallers
    /\ resp = NoStoreResp
    /\ NoRequest

FreshId(f) == Len(activity_accepted[f]) + 1

\* ids first, first + 1, ..., first + k - 1
LogRun(f, first, k) == [i \in 1..k |-> ActivityLog(first + i - 1, f, "kid@example.com")]

\* the batches submitted: empty, fresh runs (one of them longer than the
\* capacity), a run starting at the id submitted last, and the same fresh
\* id twice
Batches(f) ==
    {LogRun(f, FreshId(f), k) : k \in {0, 2, MAX_ACTIVITY_LOGS_PER_FAMILY + 1}}
    \cup {LogRun(f, FreshId(f) - 1, 2),
          <<ActivityLog(FreshId(f), f, "kid@example.com"),
            ActivityLog(FreshId(f), f, "kid@example.com")>>}

SyncActivityLog ==
    \E f \in Families, id_offset \in {0, 1}, remote_ok \in BOOLEAN :
        /\ handled < MaxSyncs
        /\ FreshId(f) - id_offset >= 1
        /\ ~USE_FIREBASE => remote_ok
        /\ sync_activity_log(ActivityLog(FreshId(f) - id_offset, f, "kid@example.com"),
                             remote_ok)
        /\ UNCHANGED req

SyncActivityLogsBatch ==
    \E f \in Families \cup {""} :
        /\ handled < MaxSyncs
        /\ \E logs \in (IF f = "" THEN {<<>>} ELSE Batches(f)) :
              sync_activity_logs_batch(f, logs)
        /\ UNCHANGED req

NextActivity == SyncActivityLog \/ SyncActivityLogsBatch

SpecActivity == InitActivity /\ [][NextActivity]_vars

(***************************************************************************)
(* SpecCallers: several requests that write the activity-log and reveal    *)
(* collections are in flight at once.  No lock guards these collections;   *)
(* the handlers are "async def" and run on the event loop, which switches  *)
(* between them only at an await.  sync_activity_logs_batch awaits the     *)
(* request body before it touches the store, the two other handlers do not *)
(* await at all.  req[c] is the request of caller c, its position, and the *)
(* logs a batch admitted.                                                  *)
(***************************************************************************)
CallerRequests ==
    {[endpoint |-> "POST /activity-logs", at |-> "start",
      logs |-> <<ActivityLog(1, "famA", "kid@example.com")>>, admitted |-> <<>>],
     [endpoint |-> "POST /track-blur-reveal", at |-> "start", logs |-> <<>>,
      admitted |-> <<>>]}
    \cup {[endpoint |-> "POST /activity-logs/batch", at |-> "start",
           logs |-> <<ActivityLog(i, "famA", "kid@example.com"),
                      ActivityLog(j, "famA", "kid@example.com")>>,
           admitted |-> <<>>] : i \in {1, 2}, j \in {2}}

InitCallers ==
    /\ USE_FIREBASE = FALSE
    /\ FlaggedStoreEmpty
    /\ ActivityStoreEmpty
    /\ RevealStoreEmpty
    /\ NoCallers
    /\ resp = NoStoreResp
    /\ NSFW_MODEL = "None"
    /\ load_attempts = 0
    /\ handled = 0
    /\ \E k \in 1..MaxCallers : req \in [1..k -> CallerRequests]

\* the positions at which a store handler is suspended: "parsed" is the
\* await of the request body in sync_activity_logs_batch
suspended(at) == at \in {"start", "parsed", "done"}

\* the event loop resumes caller c when every other handler is suspended
resumable(c) == \A d \in DOMAIN req \ {c} : suspended(req[d].at)

\* main.py:1242  data = await request.json()
AwaitBody(c) ==
    /\ req[c].endpoint = "POST /activity-logs/batch"
    /\ req[c].at = "start"
    /\ resumable(c)
    /\ req' = [req EXCEPT ![c].at = "parsed"]
    /\ UNCHANGED <<resp, NSFW_MODEL, flaggedVars, activityVars, revealVars,
                   load_attempts, lockVars, handled>>

HandleSync(c) ==
    /\ req[c].endpoint = "POST /activity-logs"
    /\ req[c].at = "start"
    /\ resumable(c)
    /\ sync_activity_log(req[c].logs[1], TRUE)
    /\ req' = [req EXCEPT ![c].at = "done"]

HandleBatch(c) ==
    /\ req[c].endpoint = "POST /activity-logs/batch"
    /\ req[c].at = "parsed"
    /\ resumable(c)
    /\ sync_activity_logs_batch("famA", req[c].logs)
    /\ req' = [req EXCEPT ![c].at = "done",
                          ![c].admitted =
                              LET stored == partition(activity_logs_cache, "famA")
                              IN without_ids(req[c].logs,
                                     {stored[i].id : i \in 1..Len(stored)})]

HandleReveal(c) ==
    /\ req[c].endpoint = "POST /track-blur-reveal"
    /\ req[c].at = "start"
    /\ resumable(c)
    /\ track_blur_reveal(BlurRevealEvent(c, "profanity", "u1", c), "ok")
    /\ req' = [req EXCEPT ![c].at = "done"]

NextCallers ==
    \E c \in DOMAIN req :
        \/ AwaitBody(c)
        \/ HandleSync(c)
        \/ HandleBatch(c)
        \/ HandleReveal(c)

SpecCallers == InitCallers /\ [][NextCallers]_vars

(***************************************************************************)
(* SpecMembers: registrations of family members, one after another as the  *)
(* event loop runs the handler, which has no await.                        *)
(***************************************************************************)
MemberEmails ==
    {"kid.a@example.com", " Kid.A@Example.com ", "kid_dot_a@example.com",
     "mum@example.com"}

InitMembers ==
    /\ USE_FIREBASE \in BOOLEAN
    /\ flagged_events_cache = <<>>
    /\ flagged_events_file = NoFile
    /\ firestore_flagged = <<>>
    /\ flagged_accepted = <<>>
    /\ ActivityStoreEmpty
    /\ RevealStoreEmpty
    /\ NoCallers
    /\ NoRequest
    /\ resp = NoStoreResp

RegisterMember ==
    \E family_id \in Families, email \in MemberEmails, name \in {"", "Kid"},
       remote \in {"ok", "query_raises", "write_raises"} :
        /\ handled < MaxRegistrations
        /\ ~USE_FIREBASE => remote = "ok"
        /\ register_family_member(RegisterMemberRequest(family_id, email, name),
                                  remote, handled + 1)
        /\ req' = [endpoint |-> "POST /register-member", familyId |-> family_id,
                   email |-> email, name |-> name, remote |-> remote]

NextMembers == RegisterMember

SpecMembers == InitMembers /\ [][NextMembers]_vars

(***************************************************************************)
(* The keyword analyser (fastapi_server).  A text is a sequence of         *)
(* characters.                                                             *)
(***************************************************************************)
\* str.upper(), one character at a time
upper_char(c) ==
    CASE c = "u" -> "U" [] c = "n" -> "N" [] c = "s" -> "S"
      [] c = "a" -> "A" [] c = "f" -> "F" [] c = "e" -> "E"
      [] c = "o" -> "O" [] c = "k" -> "K"
      [] OTHER -> c

upper(text) == [i \in 1..Len(text) |-> upper_char(text[i])]

\* "needle in text"
contains(text, needle) ==
    \E i \in 1..(Len(text) - Len(needle) + 1) :
        SubSeq(text, i, i + Len(needle) - 1) = needle

RECURSIVE lstrip_chars(_)
lstrip_chars(text) ==
    IF text # <<>> /\ Head(text) = " " THEN lstrip_chars(Tail(text)) ELSE text

RECURSIVE rstrip_chars(_)
rstrip_chars(text) ==
    IF text # <<>> /\ text[Len(text)] = " "
    THEN rstrip_chars(SubSeq(text, 1, Len(text) - 1))
    ELSE text

\* str.strip()
strip_chars(text) == rstrip_chars(lstrip_chars(text))

\* text.split(":", 1)[-1]
after_first_colon(text) ==
    IF \E i \in 1..Len(text) : text[i] = ":"
    THEN LET first == CHOOSE i \in 1..Len(text) :
                          text[i] = ":" /\ \A j \in 1..(i - 1) : text[j] # ":"
         IN SubSeq(text, first + 1, Len(text))
    ELSE text

UNSAFE == <<"U", "N", "S", "A", "F", "E">>
SAFE == <<"S", "A", "F", "E">>

AnalysisResult(is_safe, reason) == [is_safe |-> is_safe, reason |-> reason]

\* the analyser that looks for "SAFE" before it looks for "UNSAFE"
keyword_verdict_safe_first(text) ==
    LET result_text == upper(strip_chars(text))
        reason == strip_chars(after_first_colon(strip_chars(text)))
    IN IF contains(result_text, SAFE)
       THEN AnalysisResult(TRUE, IF reason # <<>> THEN reason ELSE <<"Content is safe">>)
       ELSE AnalysisResult(FALSE, <<"AI analysis was inconclusive. Blocking as a precaution.">>)

\* the keyword test of get_ai_response on response.text
keyword_verdict(text) ==
    LET result_text == upper(strip_chars(text))
        reason == strip_chars(after_first_colon(strip_chars(text)))
    IN IF contains(result_text, UNSAFE)
       THEN AnalysisResult(FALSE, IF reason # <<>> THEN reason
                                  ELSE <<"Unspecified Harmful Content">>)
       ELSE IF contains(result_text, SAFE)
       THEN AnalysisResult(TRUE, IF reason # <<>> THEN reason ELSE <<"Content is safe">>)
       ELSE AnalysisResult(FALSE, <<"AI analysis was inconclusive. Blocking as a precaution.">>)

\* get_ai_response.  response.outcome: "raises" (generate_content raises),
\* "blocked" (no candidates), "no_text" (candidates, but reading
\* response.text raises) or "text".
get_ai_response(response) ==
    IF response.outcome \in {"raises", "no_text"}
    THEN [raised |-> TRUE, result |-> AnalysisResult(FALSE, <<>>)]
    ELSE IF response.outcome = "blocked"
    THEN [raised |-> FALSE, result |-> AnalysisResult(FALSE, <<"AI safety block">>)]
    ELSE [raised |-> FALSE, result |-> keyword_verdict(response.text)]

NoResult == [is_safe |-> FALSE, reason |-> <<"None">>]

AnalysisResponse(http, status, has_result, result) ==
    [http |-> http, status |-> status, has_result |-> has_result, result |-> result]

\* POST /analyze of fastapi_server.  long_enough: the text has the 20
\* characters AnalysisRequest asks for.
analyze_page(long_enough, response) ==
    LET answer == get_ai_response(response)
    IN resp' = IF ~long_enough
               THEN AnalysisResponse(422, "", FALSE, NoResult)
               ELSE IF answer.raised
               THEN AnalysisResponse(200, "error", FALSE, NoResult)
               ELSE AnalysisResponse(200, "complete", TRUE, answer.result)

(***************************************************************************)
(* SpecKeyword: requests of POST /analyze and what the classifier answers. *)
(***************************************************************************)
Chunks ==
    {<<"U", "N">>, <<"u", "n">>, <<"S", "A", "F", "E">>, <<"S", "a", "f", "e">>,
     <<":">>, <<" ">>, <<"o", "k">>}

RECURSIVE TextsOf(_)
TextsOf(n) ==
    IF n = 0 THEN {<<>>}
    ELSE TextsOf(n - 1) \cup {t \o c : t \in TextsOf(n - 1), c \in Chunks}

ClassifierResponses ==
    {[outcome |-> o, text |-> <<>>] : o \in {"raises", "blocked", "no_text"}}
    \cup {[outcome |-> "text", text |-> t] : t \in TextsOf(MaxChunks)}

InitKeyword ==
    /\ FlaggedStoreEmpty
    /\ ActivityStoreEmpty
    /\ RevealStoreEmpty
    /\ NoCallers
    /\ NoRequest
    /\ resp = NoStoreResp

PostAnalyze ==
    \E long_enough \in BOOLEAN, response \in ClassifierResponses :
        /\ handled < MaxKeywordCalls
        /\ analyze_page(long_enough, response)
        /\ req' = [endpoint |-> "POST /analyze", long_enough |-> long_enough,
                   response |-> response]
        /\ handled' = handled + 1
        /\ UNCHANGED <<NSFW_MODEL, flaggedVars, activityVars, revealVars,
                       load_attempts, lockVars>>

NextKeyword == PostAnalyze

SpecKeyword == InitKeyword /\ [][NextKeyword]_vars

(***************************************************************************)
(* SpecStores: one process serving writes and reads of all three local     *)
(* collections.  The flagged-event file of an earlier run may hold as many *)
(* events as the collection keeps, and a batch can bring more logs than a  *)
(* partition keeps, so both overflow within a few calls.                   *)
(***************************************************************************)
InitStores ==
    /\ USE_FIREBASE \in BOOLEAN
    /\ flagged_events_file \in
           {NoFile, JsonFile(PreviousRun(MAX_FLAGGED_EVENTS - 1))}
    /\ flagged_events_cache =
           IF USE_FIREBASE THEN <<>> ELSE _load_flagged_events(flagged_events_file)
    /\ firestore_flagged = <<>>
    /\ flagged_accepted = flagged_events_cache
    /\ ActivityStoreEmpty
    /\ RevealStoreEmpty
    /\ NoCallers
    /\ resp = NoStoreResp
    /\ NoRequest

StoreFlaggedEvent ==
    \E remote \in {"ok", "set_raises"} :
        /\ handled < MaxStoreCalls
        /\ ~USE_FIREBASE => remote = "ok"
        /\ create_flagged_event(FlaggedEvent(NextLabel, "profanity", "u1", "naive"),
                                remote, TRUE)
        /\ req' = GatewayRequest("POST /flagged-events", NextLabel, remote, TRUE,
                                 NoQuery)

StoreActivityLogs ==
    \E k \in {1, MAX_ACTIVITY_LOGS_PER_FAMILY + 1} :
        /\ handled < MaxStoreCalls
        /\ sync_activity_logs_batch("famA", LogRun("famA", FreshId("famA"), k))
        /\ req' = ActivityRequest("POST /activity-logs/batch", k, "famA", "", 0)

StoreBlurReveal ==
    \E remote \in {"ok", "set_raises"} :
        /\ handled < MaxStoreCalls
        /\ ~USE_FIREBASE => remote = "ok"
        /\ track_blur_reveal(
               BlurRevealEvent(NextRevealLabel, "profanity", "u1", NextRevealLabel),
               remote)
        /\ req' = GatewayRequest("POST /track-blur-reveal", NextRevealLabel, remote,
                                 TRUE, NoQuery)

ReadFlaggedEvents ==
    /\ handled < MaxStoreCalls
    /\ get_flagged_events(25, "", "", TRUE)
    /\ req' = GatewayRequest("GET /flagged-events", 0, "ok", TRUE,
                             [limit |-> 25, category |-> "", user_id |-> ""])

ReadBlurReveals ==
    /\ handled < MaxStoreCalls
    /\ get_blur_reveals(25, "", "", TRUE)
    /\ req' = GatewayRequest("GET /blur-reveals", 0, "ok", TRUE,
                             [limit |-> 25, category |-> "", user_id |-> ""])

ReadActivityLogs ==
    /\ handled < MaxStoreCalls
    /\ get_activity_logs("famA", "", 100)
    /\ req' = ActivityRequest("GET /activity-logs", 0, "famA", "", 100)

NextStores ==
    \/ StoreFlaggedEvent
    \/ StoreActivityLogs
    \/ StoreBlurReveal
    \/ ReadFlaggedEvents
    \/ ReadBlurReveals
    \/ ReadActivityLogs

SpecStores == InitStores /\ [][NextStores]_vars

(***************************************************************************)
(* Properties of the analysis endpoints.                                   *)
(***************************************************************************)
Handled(endpoint) == req.endpoint = endpoint /\ resp # NoResp

BatchN == Len(req.contents.items)

\* what the handler decodes from the classifier's text
Decoded == json_loads(clean_response_text(req.remote.text))

RemoteAnswered == req.remote.kind = "text" /\ req.remote.text # <<>>
RemoteEmpty == req.remote.kind = "text" /\ req.remote.text = <<>>
RemoteRaised == req.remote.kind = "raise"

\* the verdicts the service writes itself
ServiceVerdicts ==
    {CONTENT_BLOCKED, CONTENT_API_BLOCKED, CONTENT_PARSE_ERROR, CONTENT_ERROR,
     BATCH_PAD, BATCH_BLOCKED, BATCH_PARSE_ERROR, BATCH_API_ERROR,
     IMAGE_NO_RESPONSE, IMAGE_HTTP_ERROR, IMAGE_PARSE_ERROR, IMAGE_ERROR,
     NSFW_MODEL_UNAVAILABLE, NSFW_HTTP_ERROR, NSFW_ERROR}

WellFormedVerdict(v) ==
    /\ v.kind = "object"
    /\ VerdictFields \subseteq v.has
    /\ v.confidence \in 0..100
    /\ v.category \in RecognisedCategories

\* C1: whenever analyze_batch reaches the remote call (the batch holds 1..50
\* items), whatever the call returns or raises, the response is 200 with a
\* results array of exactly as many entries as the batch has items.
C1_BatchReturnsExactlyN ==
    (Handled("analyze-batch") /\ resp.invoked) =>
        /\ BatchN \in 1..MAX_BATCH_CONTENTS
        /\ resp.status = 200
        /\ resp.body.isList
        /\ Len(resp.body.items) = BatchN

\* a batch of 50 answered with an array of 51, cut to 50
C1_Witness ==
    /\ Handled("analyze-batch")
    /\ resp.invoked
    /\ RemoteAnswered /\ Decoded.ok /\ Len(Decoded.doc.items) = MAX_BATCH_CONTENTS + 1
    /\ BatchN = MAX_BATCH_CONTENTS
    /\ Len(resp.body.items) = MAX_BATCH_CONTENTS

\* C2: when the batch response decodes to R (a value that is no array
\* counting as [value]), results[i] = R[i] for every i <= min(len R, N) and
\* every later position up to N holds the safe default verdict.
C2_BatchPositional ==
    (Handled("analyze-batch") /\ resp.invoked /\ RemoteAnswered /\ Decoded.ok) =>
        /\ Len(resp.body.items) = BatchN
        /\ \A i \in 1..BatchN :
              resp.body.items[i] =
                  IF i <= Len(Decoded.doc.items) THEN Decoded.doc.items[i] ELSE BATCH_PAD
        /\ BATCH_PAD.safe /\ BATCH_PAD.category = "safe"

\* three items, an array of two different entries: the third is the padding
C2_Witness ==
    /\ Handled("analyze-batch")
    /\ resp.invoked /\ RemoteAnswered /\ Decoded.ok
    /\ BatchN = 3
    /\ Decoded.doc.isList
    /\ Len(Decoded.doc.items) = 2
    /\ Decoded.doc.items[1] # Decoded.doc.items[2]
    /\ resp.body.items = <<Decoded.doc.items[1], Decoded.doc.items[2], BATCH_PAD>>

\* C3: every verdict the service writes itself has safe = false, except the
\* model-unavailable verdict of analyze-image-nsfw.
C3_FallbacksFailClosed ==
    resp.status = 200 =>
        \A i \in 1..Len(resp.body.items) :
            resp.body.items[i] \in ServiceVerdicts =>
                \/ ~resp.body.items[i].safe
                \/ resp.body.items[i] = NSFW_MODEL_UNAVAILABLE

\* C4: a malformed or refused single-item analysis (empty or blocked output,
\* a blocked/prohibited error, text that does not decode) ends in a 200
\* response carrying one verdict with safe = false and a recognised category.
MalformedOrRefused ==
    \/ RemoteEmpty
    \/ RemoteRaised /\ is_blocked_message(req.remote.msg)
    \/ RemoteAnswered /\ ~Decoded.ok

C4_ContentFailsClosed ==
    (Handled("analyze-content") /\ resp.invoked /\ MalformedOrRefused) =>
        /\ resp.status = 200
        /\ ~resp.body.isList
        /\ WellFormedVerdict(resp.body.items[1])
        /\ ~resp.body.items[1].safe

C4_Witness ==
    /\ Handled("analyze-content")
    /\ RemoteAnswered /\ ~Decoded.ok
    /\ resp = Ok(One(CONTENT_PARSE_ERROR), TRUE)

\* C5: every verdict returned with status 200 by analyze-content,
\* analyze-batch and analyze-image is an object carrying all six fields, a
\* confidence within 0..100 and a recognised category.
C5_VerdictsWellFormed ==
    (resp.status = 200
        /\ req.endpoint \in {"analyze-content", "analyze-batch", "analyze-image"}) =>
        /\ resp.body.isList <=> req.endpoint = "analyze-batch"
        /\ \A i \in 1..Len(resp.body.items) : WellFormedVerdict(resp.body.items[i])

\* C6: when the batch response cannot be parsed, the results are N copies of
\* one verdict with safe = false and category processing_error.
C6_BatchParseErrorFailsClosed ==
    (Handled("analyze-batch") /\ resp.invoked /\ RemoteAnswered /\ ~Decoded.ok) =>
        \E v \in ServiceVerdicts :
            /\ resp.body = Filled(BatchN, v)
            /\ ~v.safe
            /\ v.category = "processing_error"

C8_ContentNeverRaises ==
    /\ []((Handled("analyze-content") /\ resp.invoked /\ RemoteRaised) =>
            /\ resp.status = 200
            /\ ~resp.body.isList
            /\ resp.body.items[1] \in ServiceVerdicts
            /\ ~resp.body.items[1].safe)
    /\ [][req.endpoint = "analyze-content" =>
            UNCHANGED <<flaggedVars, activityVars, revealVars>>]_vars

\* a timeout of the classifier call, answered with the error verdict
C8_Witness ==
    /\ Handled("analyze-content")
    /\ RemoteRaised /\ ~is_blocked_message(req.remote.msg)
    /\ resp = Ok(One(CONTENT_ERROR), TRUE)

(***************************************************************************)
(* Properties of the event stores.                                         *)
(***************************************************************************)
\* the last k elements of s (all of s when it is shorter)
LastK(s, k) == IF Len(s) > k THEN SubSeq(s, Len(s) - k + 1, Len(s)) ELSE s

\* C9: the local flagged-event collection never holds more than 250 events
\* and is always the newest (up to 250) of the events it started with and
\* accepted since, in append order, on the local and on the local-fallback
\* write path; after events 1..260 were appended to an empty collection it
\* holds exactly 11..260.
C9_FlaggedBounded ==
    /\ Len(flagged_events_cache) <= MAX_FLAGGED_EVENTS
    /\ flagged_events_cache = LastK(flagged_accepted, MAX_FLAGGED_EVENTS)
    /\ (Len(flagged_accepted) = MAX_FLAGGED_EVENTS + 10 /\ flagged_accepted[1].n = 1) =>
          /\ Len(flagged_events_cache) = MAX_FLAGGED_EVENTS
          /\ \A i \in 1..MAX_FLAGGED_EVENTS : flagged_events_cache[i].n = i + 10

\* 260 writes that all fell back to the local collection
C9_Witness ==
    /\ USE_FIREBASE
    /\ resp.storage = "local_fallback"
    /\ Len(flagged_accepted) = MAX_FLAGGED_EVENTS + 10
    /\ flagged_accepted[1].n = 1
    /\ flagged_events_cache[1].n = 11
    /\ flagged_events_cache[MAX_FLAGGED_EVENTS].n = MAX_FLAGGED_EVENTS + 10

\* C10: every family partition holds at most 500 logs and is always the
\* newest (up to 500) of the logs appended to it, in append order.
C10_ActivityBounded ==
    /\ DOMAIN activity_logs_cache \subseteq Families
    /\ \A f \in DOMAIN activity_logs_cache :
          /\ Len(activity_logs_cache[f]) <= MAX_ACTIVITY_LOGS_PER_FAMILY
          /\ activity_logs_cache[f] =
                 LastK(activity_accepted[f], MAX_ACTIVITY_LOGS_PER_FAMILY)

\* a batch of 501 new logs synced to a partition that already held two
C10_Witness ==
    /\ "famA" \in DOMAIN activity_logs_cache
    /\ resp.added = MAX_ACTIVITY_LOGS_PER_FAMILY + 1
    /\ Len(activity_accepted["famA"]) = MAX_ACTIVITY_LOGS_PER_FAMILY + 3
    /\ Len(activity_logs_cache["famA"]) = MAX_ACTIVITY_LOGS_PER_FAMILY
    /\ activity_logs_cache["famA"][1].id = 4
    /\ activity_logs_cache["famA"][MAX_ACTIVITY_LOGS_PER_FAMILY].id =
           MAX_ACTIVITY_LOGS_PER_FAMILY + 3


\* C11: the reveal-event collection never holds more than 1000 events and is
\* always the newest (up to 1000) of the reveals appended to it, in append
\* order, on the local and on the local-fallback path; a write to a full
\* collection removes exactly its oldest event.
C11_RevealsBounded ==
    /\ Len(blur_reveal_cache) <= MAX_BLUR_REVEALS
    /\ blur_reveal_cache = LastK(reveal_accepted, MAX_BLUR_REVEALS)
    /\ Len(reveal_accepted) > MAX_BLUR_REVEALS =>
          /\ Len(blur_reveal_cache) = MAX_BLUR_REVEALS
          /\ blur_reveal_cache[1].n = Len(reveal_accepted) - MAX_BLUR_REVEALS + 1
          /\ resp.total = MAX_BLUR_REVEALS

\* 1002 reveals that all fell back to the local collection
C11_Witness ==
    /\ USE_FIREBASE
    /\ resp.storage = "local_fallback"
    /\ Len(reveal_accepted) = MAX_BLUR_REVEALS + 2
    /\ blur_reveal_cache[1].n = 3
    /\ blur_reveal_cache[MAX_BLUR_REVEALS].n = MAX_BLUR_REVEALS + 2


\* C12: a batch sync adds to the family's partition one log per distinct id
\* of the request that the partition did not hold, whether the id repeats
\* across two requests or within one request's logs array.
C12_BatchDedupes ==
    [][(req'.endpoint = "activity-logs/batch" /\ handled' = handled + 1
            /\ resp'.http = 200) =>
          LET f == req'.familyId
              before == partition(activity_logs_cache, f)
              after == partition(activity_logs_cache', f)
              held == {before[i].id : i \in 1..Len(before)}
              sent == {req'.logs[i].id : i \in 1..Len(req'.logs)}
          IN Len(after) - Len(before) = Cardinality(sent \ held)]_vars


(***************************************************************************)
(* The dual-backend gateway (SpecGateway).                                 *)
(***************************************************************************)
Called(endpoint) == req.endpoint = endpoint

\* the step handles a request of that endpoint
Calls(endpoint) == handled' = handled + 1 /\ req'.endpoint = endpoint

UnfilteredRead(r) == r.category = "" /\ r.user_id = "" /\ r.limit = 25

\* C13: with the local backend selected at start, a flagged-event write is
\* answered 'stored' by the local store, and an unfiltered read that
\* follows it returns the event, in the shape a remote-backed write gives
\* it (with its id).
C13_LocalWritesRetrievable ==
    [][/\ (~USE_FIREBASE /\ Calls("POST /flagged-events")) =>
             (resp'.http = 200 /\ resp'.status = "stored" /\ resp'.storage = "local")
       /\ (~USE_FIREBASE /\ Called("POST /flagged-events")
               /\ Calls("GET /flagged-events") /\ UnfilteredRead(req')) =>
             /\ resp'.http = 200
             /\ \E i \in 1..Len(resp'.items) :
                   /\ resp'.items[i].n = req.n
                   /\ resp'.items[i].id # "none"]_vars


\* C14: with the remote backend selected, a flagged-event or reveal-event
\* write whose remote write fails is appended to the local collection and
\* answered as a success tagged storage = 'local_fallback' (also when the
\* file cannot be written); the remote store is left as it was.
C14_RemoteWriteFailureFallsBack ==
    [][(USE_FIREBASE /\ handled' = handled + 1 /\ req'.remote = "set_raises") =>
          /\ resp'.http = 200
          /\ resp'.storage = "local_fallback"
          /\ UNCHANGED <<firestore_flagged, firestore_reveals>>
          /\ Calls("POST /flagged-events") =>
                /\ resp'.status = "stored"
                /\ Len(flagged_events_cache') = Len(flagged_events_cache) + 1
                /\ flagged_events_cache' =
                       Append(flagged_events_cache,
                              flagged_events_cache'[Len(flagged_events_cache')])
                /\ flagged_events_cache'[Len(flagged_events_cache')].n = req'.n
          /\ Calls("POST /track-blur-reveal") =>
                /\ resp'.status = "tracked"
                /\ Len(blur_reveal_cache') = Len(blur_reveal_cache) + 1
                /\ blur_reveal_cache' =
                       Append(blur_reveal_cache,
                              blur_reveal_cache'[Len(blur_reveal_cache')])
                /\ blur_reveal_cache'[Len(blur_reveal_cache')].n = req'.n]_vars

\* a reveal write fell back, then a flagged-event write fell back while the
\* file could not be written
C14_Witness ==
    /\ USE_FIREBASE
    /\ Called("POST /flagged-events")
    /\ req.remote = "set_raises"
    /\ ~req.disk_ok
    /\ resp.storage = "local_fallback"
    /\ Len(flagged_events_cache) = 1
    /\ flagged_events_file = NoFile
    /\ Len(blur_reveal_cache) = 1


WriteEndpoints == {"POST /flagged-events", "POST /track-blur-reveal"}

\* C15: no request changes the backend selected at start, and with the
\* remote backend selected every write goes to the remote store first: one
\* whose remote write works is stored there and tagged 'firebase', also
\* after earlier writes fell back and after failed remote reads.
C15_SelectionFixed ==
    [][/\ USE_FIREBASE' = USE_FIREBASE
       /\ (USE_FIREBASE /\ handled' = handled + 1 /\ req'.endpoint \in WriteEndpoints
               /\ req'.remote = "ok") =>
             /\ resp'.storage = "firebase"
             /\ UNCHANGED <<flagged_events_cache, blur_reveal_cache>>
             /\ Len(firestore_flagged') + Len(firestore_reveals') =
                    Len(firestore_flagged) + Len(firestore_reveals) + 1]_vars

\* a flagged-event write fell back to local and, two requests later, a
\* flagged-event write was stored remotely
C15_Witness ==
    /\ USE_FIREBASE
    /\ handled = 3
    /\ Called("POST /flagged-events")
    /\ req.remote = "ok"
    /\ resp.storage = "firebase"
    /\ Len(flagged_events_cache) = 1
    /\ \E i \in 1..Len(firestore_flagged) : firestore_flagged[i].n = req.n


Labels(events) == {events[i].n : i \in 1..Len(events)}

\* C16: a read is served by the selected backend alone.  With the remote
\* backend selected, GET /flagged-events and GET /blur-reveals return only
\* remote documents (nothing at all when the remote read fails), never an
\* event held only in the local collection; with the local backend
\* selected they return only events of the local collection.
C16_ReadsNeverMerge ==
    /\ (Called("GET /flagged-events") /\ resp.http = 200) =>
          /\ Labels(resp.items) \subseteq
                 (IF USE_FIREBASE THEN Labels(firestore_flagged)
                  ELSE Labels(flagged_events_cache))
          /\ req.remote = "read_raises" => (resp.items = <<>> /\ resp.error)
    /\ Called("GET /blur-reveals") =>
          /\ resp.http = 200
          /\ Labels(resp.items) \subseteq
                 (IF USE_FIREBASE THEN Labels(firestore_reveals)
                  ELSE Labels(blur_reveal_cache))
          /\ req.remote = "read_raises" => (resp.items = <<>> /\ resp.error)

\* a remote read that fails while the local collection holds an event whose
\* write fell back and was acknowledged
C16_Witness ==
    /\ USE_FIREBASE
    /\ Called("GET /flagged-events")
    /\ req.remote = "read_raises"
    /\ Len(flagged_events_cache) = 2
    /\ resp.items = <<>>


LabelSeq(events) == [i \in 1..Len(events) |-> events[i].n]

\* the local collection a LocalFallback run holds after the writes that put
\* these documents in the remote store (fewer than the capacity)
LocalAfterSameWrites(docs) == [i \in 1..Len(docs) |-> [docs[i] EXCEPT !.id = "none"]]

\* C17: a remote-backed read returns what a local-backed run returns for the
\* same writes and the same query: the same events in the same order and
\* the same total (compared here by the events' labels, whatever their id).
C17_BackendsEquivalent ==
    /\ (USE_FIREBASE /\ Called("GET /flagged-events") /\ req.remote = "ok"
            /\ flagged_events_cache = <<>> /\ 0 \notin Labels(firestore_flagged)) =>
          LET local == read_flagged_local(LocalAfterSameWrites(firestore_flagged),
                                          clamp_limit(req.limit), req.category,
                                          req.user_id)
          IN /\ resp.http = local.http
             /\ LabelSeq(resp.items) = LabelSeq(local.items)
    /\ (USE_FIREBASE /\ Called("GET /blur-reveals") /\ req.remote = "ok"
            /\ blur_reveal_cache = <<>> /\ 0 \notin Labels(firestore_reveals)) =>
          LET local == read_reveals_local(LocalAfterSameWrites(firestore_reveals),
                                          req.limit, req.category, req.user_id)
          IN /\ LabelSeq(resp.items) = LabelSeq(local.items)
             /\ resp.total = local.total


(***************************************************************************)
(* Concurrent appends (SpecLocked).                                        *)
(***************************************************************************)
InCriticalSection(c) == pc[c] \in {"append", "trim", "persist"}

AllDone == \A c \in DOMAIN pc : pc[c] = "done"

\* the events of this run, in the order the collection holds them
NewLabels(events) ==
    LabelSeq(SelectSeq(events, LAMBDA e : e.n >= 1))

\* C18: append, trim and persist of one caller run with no other caller
\* inside the section; whenever nobody is inside, the file holds the
\* collection; no event is lost: once k callers are done with s + k <= 250,
\* the collection is the s initial events followed by all k events in the
\* order the callers took the lock.
C18_LockedAppends ==
    /\ \A c, d \in DOMAIN pc :
          (InCriticalSection(c) /\ InCriticalSection(d)) => c = d
    /\ \A c \in DOMAIN pc : InCriticalSection(c) => _flagged_events_lock = c
    /\ ((\A c \in DOMAIN pc : ~InCriticalSection(c)) /\ lock_order # <<>>) =>
          flagged_events_file = JsonFile(flagged_events_cache)
    /\ flagged_events_cache = LastK(flagged_accepted, MAX_FLAGGED_EVENTS)
          \/ \E c \in DOMAIN pc : pc[c] = "trim"
    /\ (AllDone /\ Len(flagged_accepted) <= MAX_FLAGGED_EVENTS) =>
          /\ flagged_events_cache = flagged_accepted
          /\ NewLabels(flagged_events_cache) = lock_order
          /\ Len(lock_order) = Len(pc)
          /\ DOMAIN pc \subseteq Labels(flagged_events_cache)

\* three callers done on a collection that held events of an earlier run
\* and had room for three more, the lock taken in an order other than the
\* callers' numbers
C18_Witness ==
    /\ DOMAIN pc = 1..3
    /\ AllDone
    /\ lock_order = <<2, 3, 1>>
    /\ Len(flagged_accepted) > 3
    /\ Len(flagged_accepted) <= MAX_FLAGGED_EVENTS
    /\ NewLabels(flagged_events_cache) = <<2, 3, 1>>


(***************************************************************************)
(* The local image classifier.                                             *)
(***************************************************************************)
\* C19: when the local model is unavailable (artefact absent or its load
\* failed), analyze-image-nsfw answers every image it could decode with
\* safe = true, category 'error', confidence 0.
C19_ModelUnavailableFailsOpen ==
    (Handled("analyze-image-nsfw") /\ nsfw_predicts(req) /\ NSFW_MODEL = "None") =>
        /\ resp.status = 200
        /\ ~resp.body.isList
        /\ resp.body.items[1].safe = TRUE
        /\ resp.body.items[1].category = "error"
        /\ resp.body.items[1].confidence = 0
        /\ resp.body.items[1].has = VerdictFields

\* a base64 image decoded while the artefact could not be loaded
C19_Witness ==
    /\ Handled("analyze-image-nsfw")
    /\ req.image_base64 = "data_uri"
    /\ req.download = "ok"
    /\ req.artifact = "corrupt"
    /\ NSFW_MODEL = "None"
    /\ load_attempts = 1
    /\ resp = Ok(One(NSFW_MODEL_UNAVAILABLE), FALSE)

\* C20: the model is loaded at most once per process: once a load was
\* attempted -- it succeeded, found no artefact or failed -- no later call
\* attempts a load.
C20_LoadsAtMostOnce ==
    [][load_attempts >= 1 => load_attempts' = load_attempts]_vars


(***************************************************************************)
(* C21  Callers that arrive together before any model is held.             *)
(***************************************************************************)
LoadersDone == \A c \in DOMAIN pc : pc[c].at = "done"

\* C21: when the artefact is loadable and several callers reach
\* load_nsfw_model before a model is held, the artefact is loaded exactly
\* once and every caller is handed the model that load installed.
C21_OneLoadForConcurrentCallers ==
    req.artifact = "present" =>
        /\ load_attempts <= 1
        /\ \A c \in DOMAIN pc :
               pc[c].at = "done" =>
                   /\ pc[c].model_data = "loaded"
                   /\ load_attempts = 1

\* callers of both endpoints have all returned, one load was made and each
\* of them was handed the loaded model
C21_Witness ==
    /\ req.artifact = "present"
    /\ Len(pc) >= 2
    /\ LoadersDone
    /\ load_attempts = 1
    /\ \A c \in DOMAIN pc : pc[c].model_data = "loaded"
    /\ \E c, d \in DOMAIN pc : pc[c].endpoint # pc[d].endpoint


\* the verdict of the last analyze-image-nsfw call
NsfwItem == resp.body.items[1]

\* C22: for every prediction of the loaded local model the verdict has
\* safe = true exactly when the predicted class is 'safe' and otherwise
\* safe = false with category 'explicit_content'; either way it carries the
\* predicted class and the probability of every class, and its confidence
\* is the predicted class's probability as a whole number of percent.
C22_VerdictFollowsPrediction ==
    (Handled("analyze-image-nsfw") /\ nsfw_predicts(req) /\ NSFW_MODEL = "loaded") =>
        /\ resp.status = 200
        /\ \E i \in 1..Len(req.prediction) :
               /\ \A j \in 1..Len(req.prediction) :
                      req.prediction[j] <= req.prediction[i]
               /\ NsfwItem.class = idx_to_class[i]
               /\ NsfwItem.confidence \in 0..100
               /\ NsfwItem.confidence * 10 - req.prediction[i] \in -5..5
        /\ NsfwItem.safe = (NsfwItem.class = "safe")
        /\ NsfwItem.safe = FALSE => NsfwItem.category = "explicit_content"
        /\ NsfwItem.probabilities = req.prediction
        /\ {"class", "probabilities"} \subseteq NsfwItem.has

\* the loaded model predicted the class 'sexy' with probability 0.685 and
\* the image was flagged with confidence 68
C22_Witness ==
    /\ Handled("analyze-image-nsfw")
    /\ nsfw_predicts(req)
    /\ NSFW_MODEL = "loaded"
    /\ req.prediction = <<100, 215, 685>>
    /\ NsfwItem.class = "sexy"
    /\ NsfwItem.safe = FALSE
    /\ NsfwItem.category = "explicit_content"
    /\ NsfwItem.confidence = 68


(***************************************************************************)
(* Filters of the read endpoints.                                          *)
(***************************************************************************)
\* the stored events that the query of request r selects by equality
EqualMatches(stored, r) ==
    {stored[i].n : i \in {j \in 1..Len(stored) :
                             /\ given(r.category) => stored[j].category = r.category
                             /\ given(r.user_id) => stored[j].user_id = r.user_id}}

\* C23: on whichever backend is selected, GET /flagged-events and
\* GET /blur-reveals with category = c and/or user_id = u return exactly
\* the stored events whose category equals c and whose user_id equals u
\* (the limit being large enough to return them all).
C23_FilterIsEquality ==
    /\ (Called("GET /flagged-events") /\ req.remote = "ok" /\ req.limit = 25
            /\ resp.http = 200) =>
          Labels(resp.items) =
              EqualMatches(IF USE_FIREBASE THEN firestore_flagged
                           ELSE flagged_events_cache, req)
    /\ (Called("GET /blur-reveals") /\ req.remote = "ok" /\ req.limit = 25) =>
          Labels(resp.items) =
              EqualMatches(IF USE_FIREBASE THEN firestore_reveals
                           ELSE blur_reveal_cache, req)


\* the logs of request r's family that its user_email selects by equality
EqualLogMatches(cache, r) ==
    {i \in 1..Len(partition(cache, r.familyId)) :
        given(r.user_id) => partition(cache, r.familyId)[i].userEmail = r.user_id}

\* no collection and no partition is created or changed
StoresUntouched ==
    UNCHANGED <<flagged_events_cache, flagged_events_file, firestore_flagged,
                activity_logs_cache, firestore_activity, blur_reveal_cache,
                firestore_reveals>>

\* C24: a read whose filters match nothing -- a category, user_id or
\* user_email no stored event has, a family without logs -- returns an
\* empty sequence and no error, and creates or changes no collection and no
\* partition.
C24_UnmatchedReadIsEmpty ==
    [][/\ (Calls("GET /flagged-events") /\ req'.remote = "ok"
              /\ EqualMatches(IF USE_FIREBASE THEN firestore_flagged
                              ELSE flagged_events_cache, req') = {}) =>
             /\ resp'.http = 200 /\ resp'.items = <<>> /\ ~resp'.error
             /\ StoresUntouched
       /\ (Calls("GET /blur-reveals") /\ req'.remote = "ok"
              /\ EqualMatches(IF USE_FIREBASE THEN firestore_reveals
                              ELSE blur_reveal_cache, req') = {}) =>
             /\ resp'.http = 200 /\ resp'.items = <<>> /\ ~resp'.error
             /\ resp'.total = 0
             /\ StoresUntouched
       /\ (Calls("GET /activity-logs")
              /\ EqualLogMatches(activity_logs_cache, req') = {}) =>
             /\ resp'.http = 200 /\ resp'.items = <<>> /\ ~resp'.error
             /\ resp'.total = 0
             /\ StoresUntouched]_vars


(***************************************************************************)
(* Input validation and status codes of the analysis endpoints.            *)
(***************************************************************************)
\* C25: a batch whose contents is a list of length 0 is answered 200 with
\* an empty results array, and the remote classifier is not called.
C25_EmptyBatchReturnsEmpty ==
    (Handled("analyze-batch") /\ req.contents.isList /\ BatchN = 0) =>
        /\ resp.status = 200
        /\ resp.body = Doc(TRUE, <<>>)
        /\ ~resp.invoked

\* C26: a batch of zero items or of more than 50 items is rejected with
\* HTTP 400 and the remote classifier is not called for it.
C26_BatchSizeRejected ==
    (Handled("analyze-batch") /\ req.contents.isList
        /\ (BatchN = 0 \/ BatchN > MAX_BATCH_CONTENTS)) =>
        /\ resp.status = 400
        /\ ~resp.invoked

\* a batch of 51 items was rejected without a remote call
C26_Witness ==
    /\ Handled("analyze-batch")
    /\ req.contents = StrContents(MAX_BATCH_CONTENTS + 1)
    /\ resp.status = 400
    /\ ~resp.invoked


\* C27: every input-validation failure of an analysis endpoint is answered
\* HTTP 400: content missing or empty on analyze-content, image_url missing
\* on analyze-image, and on analyze-image-nsfw both a request with neither
\* image_url nor image_base64 and a request whose only input is an
\* image_base64 that is no data: URI and has at most 100 characters.
C27_ValidationFailuresAre400 ==
    /\ (Handled("analyze-content") /\ req.content \in {"missing", "empty"}) =>
          resp.status = 400
    /\ (Handled("analyze-image") /\ req.image_url = "none") =>
          resp.status = 400
    /\ (Handled("analyze-image-nsfw") /\ req.image_url \in {"none", "blank"}
           /\ req.image_base64 \in {"none", "blank"}) =>
          resp.status = 400
    /\ (Handled("analyze-image-nsfw") /\ req.image_url \in {"none", "blank"}
           /\ req.image_base64 = "raw_short") =>
          resp.status = 400


AnalysisEndpoints ==
    {"analyze-content", "analyze-batch", "analyze-image", "analyze-image-nsfw"}

\* C28: no analysis endpoint answers 5xx: every request with a well-formed
\* JSON body ends in HTTP 200 or HTTP 400, also when an item of the batch's
\* contents list makes the building of the prompt fail.
C28_NoServerErrors ==
    (req.endpoint \in AnalysisEndpoints /\ resp # NoResp) =>
        resp.status \in {200, 400}


(***************************************************************************)
(* What the local collections keep.                                        *)
(***************************************************************************)
\* kept is the end of everything accepted, in the same order and with
\* the same contents, and something is missing at the front only when the
\* collection holds capacity events
IsTrimmedSuffix(kept, accepted, capacity) ==
    /\ Len(kept) <= Len(accepted)
    /\ \A i \in 1..Len(kept) : kept[i] = accepted[Len(accepted) - Len(kept) + i]
    /\ Len(kept) < Len(accepted) => Len(kept) = capacity

\* C29: stored records are never changed and leave a local collection only
\* when it overflows, oldest first: the flagged-event collection, every
\* activity-log partition and the reveal collection are each a contiguous
\* suffix, in append order and with unchanged contents, of everything
\* accepted into them since the process started.
C29_CollectionsAreSuffixes ==
    /\ IsTrimmedSuffix(flagged_events_cache, flagged_accepted, MAX_FLAGGED_EVENTS)
    /\ \A f \in DOMAIN activity_logs_cache :
          IsTrimmedSuffix(activity_logs_cache[f], activity_accepted[f],
                          MAX_ACTIVITY_LOGS_PER_FAMILY)
    /\ \A f \in Families \ DOMAIN activity_logs_cache : activity_accepted[f] = <<>>
    /\ IsTrimmedSuffix(blur_reveal_cache, reveal_accepted, MAX_BLUR_REVEALS)

\* the flagged-event collection and a partition have both overflowed, a
\* reveal is held, and the flagged events have just been read
C29_Witness ==
    /\ Len(flagged_accepted) > MAX_FLAGGED_EVENTS
    /\ Len(flagged_events_cache) = MAX_FLAGGED_EVENTS
    /\ Len(activity_accepted["famA"]) > MAX_ACTIVITY_LOGS_PER_FAMILY
    /\ Len(activity_logs_cache["famA"]) = MAX_ACTIVITY_LOGS_PER_FAMILY
    /\ Called("GET /flagged-events")
    /\ Len(resp.items) = 25


\* the events a file holds
FileLabels(file) == {file.events[i].n : i \in 1..Len(file.events)}

\* C30: events already persisted in the local file leave it only by
\* oldest-first trimming at capacity: whatever backend the process selected
\* at start, a write that rewrites the file (a local write, or a
\* local-fallback write after the remote write failed) keeps every event
\* the file held before, except the oldest ones when the file holds 250.
C30_FileKeepsEarlierEvents ==
    [][\A i \in 1..Len(flagged_events_file.events) :
           flagged_events_file.events[i].n \notin FileLabels(flagged_events_file') =>
               /\ Len(flagged_events_file'.events) = MAX_FLAGGED_EVENTS
               /\ \A j \in 1..i :
                      flagged_events_file.events[j].n
                          \notin FileLabels(flagged_events_file')]_vars


(***************************************************************************)
(* The file that mirrors the flagged-event collection.                     *)
(***************************************************************************)
\* C31: on the local backend, between writes, flagged_events.json holds
\* exactly the in-memory collection, so that a restart would load the
\* collection as the last answered write left it -- also after a write
\* whose file write failed.
C31_FileMirrorsCollection ==
    ~USE_FIREBASE =>
        (IF flagged_events_file.kind = "json"
         THEN flagged_events_file.events ELSE <<>>) = flagged_events_cache


(***************************************************************************)
(* Reads of the local collections.                                         *)
(***************************************************************************)
\* the place of an event in the order of a read: its detected_at, or
\* before every time when detected_at cannot be parsed
WhenDetected(e) == IF e.detected_at.iso THEN e.detected_at.t ELSE -1000

Min2(a, b) == IF a < b THEN a ELSE b

\* the events of the local collection that the query of request r selects:
\* the local backend compares categories without case and by containment
LocalMatches(stored, r) ==
    {stored[i].n : i \in {j \in 1..Len(stored) :
                             /\ given(r.category) =>
                                    is_substring(lower(r.category), lower(stored[j].category))
                             /\ given(r.user_id) => stored[j].user_id = r.user_id}}

\* C32: on the local backend GET /flagged-events answers with the
\* min(limit clamped into 1..250, number of matches) newest matching
\* events, newest first, an event whose detected_at cannot be parsed coming
\* after every parseable one, and leaves the collection and its order as
\* they were.
C32_LocalReadNewestFirst ==
    [][(~USE_FIREBASE /\ Calls("GET /flagged-events")) =>
          LET clamped == IF req'.limit < 1 THEN 1
                         ELSE Min2(req'.limit, MAX_FLAGGED_EVENTS)
              matches == LocalMatches(flagged_events_cache, req')
              items == resp'.items
          IN /\ resp'.http = 200
             /\ Len(items) = Min2(clamped, Cardinality(matches))
             /\ Labels(items) \subseteq matches
             /\ \A i, j \in 1..Len(items) :
                    i < j => WhenDetected(items[i]) >= WhenDetected(items[j])
             /\ \A k \in 1..Len(flagged_events_cache) :
                    (flagged_events_cache[k].n \in matches \ Labels(items)) =>
                        \A i \in 1..Len(items) :
                            WhenDetected(items[i]) >= WhenDetected(flagged_events_cache[k])
             /\ flagged_events_cache' = flagged_events_cache]_vars


\* the positions in family f's partition of the logs that user_email
\* selects, letters compared without case
EmailMatches(cache, f, user_email) ==
    {i \in 1..Len(partition(cache, f)) :
        given(user_email) =>
            lower(partition(cache, f)[i].userEmail) = lower(user_email)}

\* C33: GET /activity-logs/{family_id} returns at most limit logs for every
\* integer limit (none for 0 and for a negative limit), they are the newest
\* matching logs by timestamp, newest first, and total is the number of the
\* family's logs that user_email selects, whatever the limit.
C33_ActivityReadHonoursLimit ==
    [][Calls("GET activity-logs") =>
          LET matching == EmailMatches(activity_logs_cache, req'.familyId,
                                       req'.user_email)
              stored == partition(activity_logs_cache, req'.familyId)
              items == resp'.items
              most == IF req'.limit > 0 THEN req'.limit ELSE 0
          IN /\ resp'.http = 200
             /\ resp'.total = Cardinality(matching)
             /\ Len(items) = Min2(most, Cardinality(matching))
             /\ \A i \in 1..Len(items) :
                    \E k \in matching : stored[k] = items[i]
             /\ \A i, j \in 1..Len(items) :
                    i < j => items[i].timestamp >= items[j].timestamp
             /\ items # <<>> =>
                    Cardinality({k \in matching :
                        stored[k].timestamp > items[Len(items)].timestamp})
                      < Len(items)]_vars


(***************************************************************************)
(* Concurrent writers of the activity-log and reveal collections.          *)
(***************************************************************************)
\* how many times the batches in flight admitted a log with this id
TimesAdmitted(id) ==
    Cardinality({<<c, i>> \in (DOMAIN req) \X (1..2) :
                    /\ i <= Len(req[c].admitted)
                    /\ req[c].admitted[i].id = id})

\* C34: with single syncs, batch syncs and reveal tracking in flight at
\* once on one partition and one collection (also when the partition does
\* not exist yet), no accepted event is lost, the capacity bounds hold, and
\* batch de-duplication admits every id at most once.
C34_ConcurrentWritersKeepDiscipline ==
    /\ \A f \in DOMAIN activity_logs_cache :
          /\ activity_logs_cache[f] =
                 LastK(activity_accepted[f], MAX_ACTIVITY_LOGS_PER_FAMILY)
          /\ Len(activity_logs_cache[f]) <= MAX_ACTIVITY_LOGS_PER_FAMILY
    /\ \A f \in Families \ DOMAIN activity_logs_cache : activity_accepted[f] = <<>>
    /\ blur_reveal_cache = LastK(reveal_accepted, MAX_BLUR_REVEALS)
    /\ Len(blur_reveal_cache) <= MAX_BLUR_REVEALS
    /\ Len(activity_accepted["famA"]) =
           Cardinality({c \in DOMAIN req : req[c].at = "done"
                            /\ req[c].endpoint = "POST /activity-logs"})
           + TimesAdmitted(1) + TimesAdmitted(2)
    /\ Len(reveal_accepted) =
           Cardinality({c \in DOMAIN req : req[c].at = "done"
                            /\ req[c].endpoint = "POST /track-blur-reveal"})
    /\ \A id \in {1, 2} : TimesAdmitted(id) <= 1


(***************************************************************************)
(* Ids and partitions of the activity logs.                                *)
(***************************************************************************)
\* C35: the caller's id is a de-duplication key within a family: after any
\* sequence of single syncs and batch syncs no two logs stored for one
\* family have the same id.
C35_IdsUniquePerFamily ==
    \A f \in DOMAIN activity_logs_cache :
        \A i, j \in 1..Len(activity_logs_cache[f]) :
            i # j => activity_logs_cache[f][i].id # activity_logs_cache[f][j].id


\* C36: partitions are isolated.  A single or batch sync for family F
\* leaves every other partition as it was, every log stored in partition F
\* carries familyId = F, and a read of family F returns only logs stored in
\* partition F.
C36_PartitionsIsolated ==
    [][/\ (Calls("activity-logs") \/ Calls("activity-logs/batch")) =>
             \A g \in (DOMAIN activity_logs_cache \cup DOMAIN activity_logs_cache')
                        \ {req'.familyId} :
                 /\ g \in DOMAIN activity_logs_cache
                 /\ g \in DOMAIN activity_logs_cache'
                 /\ activity_logs_cache'[g] = activity_logs_cache[g]
       /\ \A f \in DOMAIN activity_logs_cache' :
             \A i \in 1..Len(activity_logs_cache'[f]) :
                 activity_logs_cache'[f][i].familyId = f
       /\ Calls("GET activity-logs") =>
             \A i \in 1..Len(resp'.items) :
                 \E k \in 1..Len(partition(activity_logs_cache, req'.familyId)) :
                     partition(activity_logs_cache, req'.familyId)[k] = resp'.items[i]]_vars


\* C37: a read of the local flagged-event collection succeeds whatever
\* accepted events it holds (detected_at defaulted, without a timezone, with
\* a timezone, or a mixture): GET /flagged-events on the local backend
\* answers 200 with an items list and no error.
C37_LocalReadSucceeds ==
    [][(~USE_FIREBASE /\ Calls("GET /flagged-events")) =>
          (resp'.http = 200 /\ ~resp'.error)]_vars


(***************************************************************************)
(* The member list.                                                        *)
(***************************************************************************)
\* the member documents of a family whose email is the given one, compared
\* case-insensitively and trimmed
MembersWithEmail(members, family_id, email) ==
    {d \in members : /\ d.family = family_id
                     /\ strip_text(lower(d.doc.email)) = strip_text(lower(email))}

OneMemberPerEmail(members) ==
    \A f \in Families, email \in MemberEmails :
        Cardinality(MembersWithEmail(members, f, email)) <= 1

\* the member list differs from the earlier one only in lastSeen and status
OnlySeenAndStatusUpdated(before, after) ==
    /\ {[family |-> d.family, id |-> d.id, email |-> d.doc.email,
         name |-> d.doc.name, addedAt |-> d.doc.addedAt] : d \in after}
         = {[family |-> d.family, id |-> d.id, email |-> d.doc.email,
             name |-> d.doc.name, addedAt |-> d.doc.addedAt] : d \in before}
    /\ Cardinality(after) = Cardinality(before)

Registered == MembersWithEmail(firestore_members, req'.familyId, req'.email) # {}

Mentions(text, word) ==
    \E i \in 1..Len(text) :
        /\ i + Len(word) - 1 <= Len(text)
        /\ \A k \in 1..Len(word) : upper_char(text[i + k - 1]) = word[k]

Analysed == req.endpoint = "POST /analyze" /\ req.long_enough

\* C39: the keyword analyser fails closed.  The answer is is_safe = true
\* only when the classifier response has candidates and its text has 'SAFE'
\* but not 'UNSAFE', in whatever case; a blocked response, a text with
\* 'UNSAFE' and a text with neither word are answered is_safe = false; a
\* classifier error is answered with status 'error' and no result.
C39_KeywordAnalyserFailsClosed ==
    Analysed =>
        /\ (resp.has_result /\ resp.result.is_safe) =>
              /\ req.response.outcome = "text"
              /\ Mentions(req.response.text, SAFE)
              /\ ~Mentions(req.response.text, UNSAFE)
        /\ (\/ req.response.outcome = "blocked"
            \/ /\ req.response.outcome = "text"
               /\ \/ Mentions(req.response.text, UNSAFE)
                  \/ ~Mentions(req.response.text, SAFE)) =>
              /\ resp.status = "complete"
              /\ resp.has_result
              /\ ~resp.result.is_safe
        /\ req.response.outcome \in {"raises", "no_text"} =>
              /\ resp.status = "error"
              /\ ~resp.has_result

\* the classifier answered "unSafe: ..." put together from two pieces, and
\* the page was reported unsafe
C39_Witness ==
    /\ Analysed
    /\ req.response.outcome = "text"
    /\ req.response.text = <<"u", "n", "S", "a", "f", "e">>
    /\ resp.status = "complete"
    /\ ~resp.result.is_safe

====
